---------------------------- MODULE Spec2Model ----------------------------
(***************************************************************************)
(* Model of the bounded-concurrency limiter (createLimit), the retrying   *)
(* call executor (withRetry) and the recursive block-tree replicator      *)
(* (cloneBlocksRecursive) of src/index.js.                                 *)
(*                                                                         *)
(* One state of the model is the state of the Node.js process between two *)
(* turns of the event loop: an action is one callback (a setImmediate     *)
(* callback, the arrival of a remote response, the settlement of a task)  *)
(* together with the promise reactions it triggers.                       *)
(***************************************************************************)
EXTENDS Integers, Sequences, FiniteSets, TLC

VARIABLES
    \* ---- createLimit (src/index.js:28-48)
    concurrency,   \* the ceiling given to createLimit
    active,        \* `active`
    queue,         \* `queue`: the ids of the queued items, in order
    immediates,    \* number of setImmediate(next) callbacks not yet run
    tstate,        \* task -> "new" | "queued" | "running" | "settled"
    outer,         \* task -> state of the promise returned by the submission
    fnResult,      \* task -> state of the promise returned by item.fn()
    startOrder,    \* the tasks in the order next() started them
    submitOrder,   \* the tasks in the order they were submitted
    \* ---- withRetry (src/index.js:52-68)
    rpc,           \* "idle" | "calling" | "sleeping" | "returned" | "thrown"
    attempt,       \* `attempt`
    wait,          \* `wait`
    invocations,   \* number of calls of fn so far
    lastErr,       \* the error caught last (NoError before the first)
    result,        \* the promise returned by withRetry
    waits,         \* the delays waited so far, in order
    retryableFails, \* failures so far with no status, status 429 or a 5xx status
    fatalFails,    \* failures so far with a 4xx status other than 429
    opFails,       \* the operation fails on its first opFails calls
    opValue,       \* the value the operation resolves with afterwards
    \* ---- cloneBlocksRecursive (src/index.js:118-141)
    kids,          \* the source tree: node -> its children, in order (0: the root)
    cpc,           \* call on a node -> "none" | "listing" | "appending" | "awaiting"
                   \*                    | "done" | "failed"
    cursor,        \* call -> `cursor` of getAllBlocks (0: undefined)
    blocks,        \* call -> `blocks`, the children fetched so far
    chunkAt,       \* call -> `i` of the batch loop
    created,       \* call -> `created`: the ids of the destination blocks
    target,        \* call -> `targetParent` (task -> the id of its newBlock)
    dest,          \* the destination: id of a created block -> what was sent
    sent,          \* call -> the batches it has sent to the append endpoint, in order
    callErr,       \* call -> the error its promise is rejected with (NoError: none)
    failLog,       \* the unrecoverable errors of remote calls, in order of occurrence
    \* ---- the action backend (src/backend-template/vercel/api/index.js)
    env,           \* process.env: APP_SECRET and NOTION_TOKEN
    now,           \* the clock, in milliseconds
    page,          \* the properties of the task page in the workspace
    reqs,          \* request -> where its handler is, and what it holds
    notionLog,     \* the calls made on the workspace, in order
    calendar,      \* the entries created in the Calendar database, in order
    lenient,       \* the workspace applies an update that names an unknown property
    \* ---- the command line (src/index.js:310-406) and the operations it runs
    cli,           \* the command, its arguments and the files and environment it finds
    cliPc,         \* <<"idle">> | <<"start">> | <<function, remote call awaited>> | <<"exit">>
    locals,        \* the local variables of the operation that is running
    remoteLog,     \* the remote calls issued, in order
    report,        \* what the command reported, and process.exitCode
    \* ---- withRetry inside the calls of cloneBlocksRecursive (src/index.js:52-68)
    tries,         \* call -> `attempt` of the withRetry it awaits
    naps           \* number of backoff waits begun so far

limVars == <<concurrency, active, queue, immediates, tstate, outer, fnResult,
             startOrder, submitOrder>>

retryVars == <<rpc, attempt, wait, invocations, lastErr, result, waits,
               retryableFails, fatalFails, opFails, opValue>>

cloneVars == <<kids, cpc, cursor, blocks, chunkAt, created, target, dest,
               sent, callErr, failLog>>

backVars == <<env, now, page, reqs, notionLog, calendar, lenient>>

cliVars == <<cli, cliPc, locals, remoteLog, report>>

napVars == <<tries, naps>>

vars == <<limVars, retryVars, cloneVars, backVars, cliVars, napVars>>

(***************************************************************************)
(* Bounds of the model.                                                    *)
(***************************************************************************)
MaxConcurrency == 3
MaxTasks == 3
MaxFails == 6
MaxNodes == 6

(***************************************************************************)
(* Promises.                                                               *)
(***************************************************************************)
Pending == [st |-> "pending"]
Resolved(v) == [st |-> "resolved", val |-> v]
Rejected(e) == [st |-> "rejected", err |-> e]

NoError == [status |-> 0, statusCode |-> 0, at |-> 0]

\* What a generic task's promise may settle to.
TaskOutcomes == {Resolved("v1"), Resolved("v2"), Rejected("e1"), Rejected("e2")}

(***************************************************************************)
(* createLimit.                                                            *)
(***************************************************************************)
Range(s) == {s[i] : i \in DOMAIN s}

\* Mutants of next: without the ceiling test; taking the newest item.
nextNoCeiling(a, q) ==
    IF q = <<>> THEN [active |-> a, queue |-> q, started |-> <<>>]
    ELSE [active |-> a + 1, queue |-> Tail(q), started |-> <<Head(q)>>]

nextNewestFirst(a, q) ==
    IF a >= concurrency THEN [active |-> a, queue |-> q, started |-> <<>>]
    ELSE IF q = <<>> THEN [active |-> a, queue |-> q, started |-> <<>>]
    ELSE [active |-> a + 1, queue |-> SubSeq(q, 1, Len(q) - 1),
          started |-> <<q[Len(q)]>>]

\* Mutant of next: the ceiling test lets one item more through.
nextCeilingAbove(a, q) ==
    IF a > concurrency THEN [active |-> a, queue |-> q, started |-> <<>>]
    ELSE IF q = <<>> THEN [active |-> a, queue |-> q, started |-> <<>>]
    ELSE [active |-> a + 1, queue |-> Tail(q), started |-> <<Head(q)>>]

\* next() with the active count a and the queue q (lines 31-36): the active
\* count and queue it leaves, and the items it started (none or one).
next(a, q) ==
    IF a >= concurrency THEN [active |-> a, queue |-> q, started |-> <<>>]
    ELSE IF q = <<>> THEN [active |-> a, queue |-> q, started |-> <<>>]
    ELSE [active |-> a + 1, queue |-> Tail(q), started |-> <<Head(q)>>]

\* Mutant of relay: a rejection is swallowed.
relaySwallow(o) ==
    IF o.st = "resolved" THEN Resolved(o.val) ELSE Resolved(o.err)

\* .then((res) => item.resolve(res)).catch((err) => item.reject(err)): what the
\* promise returned by the submission becomes once item.fn()'s promise is o.
relay(o) ==
    IF o.st = "resolved" THEN Resolved(o.val) ELSE Rejected(o.err)

\* Mutants of release: the slot is freed but next() is not called; the slot is
\* freed only when the task succeeded.
releaseNoNext(o, a, q) == [active |-> a - 1, queue |-> q, started |-> <<>>]

releaseOnSuccessOnly(o, a, q) ==
    IF o.st = "resolved" THEN next(a - 1, q)
    ELSE [active |-> a, queue |-> q, started |-> <<>>]

\* .finally(() => { active--; next(); }) once item.fn()'s promise is o.
release(o, a, q) == next(a - 1, q)

\* The statuses after next() started the items of `started`.
startTasks(started) ==
    [t \in DOMAIN tstate |-> IF t \in Range(started) THEN "running" ELSE tstate[t]]

\* Mutant of limit: next() is called in the submission itself.
limitRunsNow(ts) ==
    /\ \A i \in DOMAIN ts : tstate[ts[i]] = "new"
    /\ LET r == next(active, queue \o ts) IN
         /\ active' = r.active
         /\ queue' = r.queue
         /\ startOrder' = startOrder \o r.started
         /\ tstate' = [t \in DOMAIN tstate |->
                         IF t \in Range(r.started) THEN "running"
                         ELSE IF t \in Range(ts) THEN "queued" ELSE tstate[t]]
    /\ submitOrder' = submitOrder \o ts
    /\ UNCHANGED <<concurrency, immediates, outer, fnResult>>

\* limit(fn) (lines 44-47), for each task of ts in turn: the item is pushed
\* and a call of next is scheduled; the task itself is not run.
limit(ts) ==
    /\ \A i \in DOMAIN ts : tstate[ts[i]] = "new"
    /\ queue' = queue \o ts
    /\ immediates' = immediates + Len(ts)
    /\ tstate' = [t \in DOMAIN tstate |->
                    IF t \in Range(ts) THEN "queued" ELSE tstate[t]]
    /\ submitOrder' = submitOrder \o ts
    /\ UNCHANGED <<concurrency, active, outer, fnResult, startOrder>>

\* The callback scheduled by setImmediate(next) runs.
ImmediateNext ==
    /\ immediates > 0
    /\ immediates' = immediates - 1
    /\ LET r == next(active, queue) IN
         /\ active' = r.active
         /\ queue' = r.queue
         /\ startOrder' = startOrder \o r.started
         /\ tstate' = startTasks(r.started)
    /\ UNCHANGED <<concurrency, outer, fnResult, submitOrder>>

\* The promise of the started task t settles to o: the reactions of lines
\* 37-42 run (the submission's promise is settled, the slot is released and
\* next() is called).
settle(t, o) ==
    /\ tstate[t] = "running"
    /\ fnResult' = [fnResult EXCEPT ![t] = o]
    /\ outer' = [outer EXCEPT ![t] = relay(o)]
    /\ LET r == release(o, active, queue) IN
         /\ active' = r.active
         /\ queue' = r.queue
         /\ startOrder' = startOrder \o r.started
         /\ tstate' = [startTasks(r.started) EXCEPT ![t] = "settled"]
    /\ UNCHANGED <<concurrency, immediates, submitOrder>>

(***************************************************************************)
(* The limiter driven by a caller that submits generic tasks.              *)
(***************************************************************************)
\* The caller submits its next task (it numbers its tasks as it submits them).
Submit(t) ==
    /\ \A u \in DOMAIN tstate : u < t => tstate[u] # "new"
    /\ limit(<<t>>)
    /\ UNCHANGED retryVars
    /\ UNCHANGED cloneVars
    /\ UNCHANGED backVars
    /\ UNCHANGED cliVars
    /\ UNCHANGED napVars

\* A setImmediate callback of the limiter runs.
LimiterTurn ==
    /\ ImmediateNext
    /\ UNCHANGED retryVars
    /\ UNCHANGED cloneVars
    /\ UNCHANGED backVars
    /\ UNCHANGED cliVars
    /\ UNCHANGED napVars

\* A started task's promise settles.
TaskSettle(t, o) ==
    /\ t \in DOMAIN tstate
    /\ settle(t, o)
    /\ UNCHANGED retryVars
    /\ UNCHANGED cloneVars
    /\ UNCHANGED backVars
    /\ UNCHANGED cliVars
    /\ UNCHANGED napVars

CloneIdle ==
    /\ kids = <<>>
    /\ cpc = <<>>
    /\ cursor = <<>>
    /\ blocks = <<>>
    /\ chunkAt = <<>>
    /\ created = <<>>
    /\ target = <<>>
    /\ dest = <<>>
    /\ sent = <<>>
    /\ callErr = <<>>
    /\ failLog = <<>>

NapIdle ==
    /\ tries = <<>>
    /\ naps = 0

CliIdle ==
    /\ cli = <<>>
    /\ cliPc = <<"idle">>
    /\ locals = <<>>
    /\ remoteLog = <<>>
    /\ report = <<>>

BackIdle ==
    /\ env = <<>>
    /\ now = 0
    /\ page = <<>>
    /\ reqs = <<>>
    /\ notionLog = <<>>
    /\ calendar = <<>>
    /\ lenient = FALSE

RetryIdle ==
    /\ rpc = "idle"
    /\ attempt = 0
    /\ wait = 0
    /\ invocations = 0
    /\ lastErr = NoError
    /\ result = Pending
    /\ waits = <<>>
    /\ retryableFails = 0
    /\ fatalFails = 0
    /\ opFails = 0
    /\ opValue = "none"

InitLimiter ==
    /\ RetryIdle
    /\ NapIdle
    /\ BackIdle
    /\ CliIdle
    /\ CloneIdle
    /\ concurrency \in 1..MaxConcurrency
    /\ active = 0
    /\ queue = <<>>
    /\ immediates = 0
    /\ \E m \in 0..MaxTasks :
         /\ tstate = [t \in 1..m |-> "new"]
         /\ outer = [t \in 1..m |-> Pending]
         /\ fnResult = [t \in 1..m |-> Pending]
    /\ startOrder = <<>>
    /\ submitOrder = <<>>

NextLimiter ==
    \/ \E t \in DOMAIN tstate : Submit(t)
    \/ LimiterTurn
    \/ \E t \in DOMAIN tstate : \E o \in TaskOutcomes : TaskSettle(t, o)

SpecLimiter == InitLimiter /\ [][NextLimiter]_vars

\* Every scheduled callback eventually runs, and every started task's promise
\* eventually settles.
FairSpecLimiter ==
    /\ SpecLimiter
    /\ WF_vars(LimiterTurn)
    /\ \A t \in 1..MaxTasks : WF_vars(\E o \in TaskOutcomes : TaskSettle(t, o))

(***************************************************************************)
(* withRetry.                                                              *)
(***************************************************************************)
MaxAttempts == 5
BaseWait == 500
MaxWait == 5000

\* An error carries an optional `status` and an optional `statusCode` (0: the
\* field is absent; an absent field and 0 are both falsy), and `at`, the call
\* of the operation that threw it.
NoStatus == 0
Statuses == {NoStatus, 400, 404, 428, 429, 430, 499, 500, 503, 599}
Errors(i) ==
    {[status |-> s, statusCode |-> NoStatus, at |-> i] : s \in Statuses}
    \cup {[status |-> NoStatus, statusCode |-> c, at |-> i] : c \in {403, 429, 502}}

\* The failure classes the properties speak of: an error is retryable when it
\* carries no status, 429 or a 5xx status, and fatal when it carries another
\* 4xx status.
Is4xx(s) == 400 <= s /\ s <= 499
Is5xx(s) == 500 <= s /\ s <= 599
CarriedStatus(e) == IF e.status # NoStatus THEN e.status ELSE e.statusCode
RetryableError(e) ==
    CarriedStatus(e) = NoStatus \/ CarriedStatus(e) = 429 \/ Is5xx(CarriedStatus(e))
FatalError(e) == Is4xx(CarriedStatus(e)) /\ CarriedStatus(e) # 429

\* const status = err?.status || err?.statusCode (line 60).
statusOf(err) == IF err.status # 0 THEN err.status ELSE err.statusCode

\* Mutants of giveUp: the ceiling is reached one attempt early; both
\* conditions are required; 429 is not exempted.
giveUpEarly(n, status) ==
    n >= MaxAttempts - 1 \/ (status # 0 /\ status < 500 /\ status # 429)

giveUpBoth(n, status) ==
    n >= MaxAttempts /\ (status # 0 /\ status < 500 /\ status # 429)

giveUpOn429(n, status) ==
    n >= MaxAttempts \/ (status # 0 /\ status < 500)

giveUpLate(n, status) ==
    n > MaxAttempts \/ (status # 0 /\ status < 500 /\ status # 429)

\* attempt >= 5 || (status && status < 500 && status !== 429) (line 61).
giveUp(n, status) ==
    n >= MaxAttempts \/ (status # 0 /\ status < 500 /\ status # 429)

\* Mutant of nextWait: the delay grows by the base delay instead of doubling.
nextWaitLinear(w) == IF w + BaseWait < MaxWait THEN w + BaseWait ELSE MaxWait

\* Math.min(wait * 2, 5000) (line 65).
nextWait(w) == IF w * 2 < MaxWait THEN w * 2 ELSE MaxWait

\* withRetry(fn) is called: lines 53-57 up to the first await.
RetryCall ==
    /\ rpc = "idle"
    /\ rpc' = "calling"
    /\ attempt' = 0
    /\ wait' = BaseWait
    /\ invocations' = 1
    /\ UNCHANGED <<lastErr, result, waits, retryableFails, fatalFails, opFails,
                   opValue>>
    /\ UNCHANGED limVars
    /\ UNCHANGED cloneVars
    /\ UNCHANGED backVars
    /\ UNCHANGED cliVars
    /\ UNCHANGED napVars

\* The promise of fn() resolves: return await fn() (line 57).
FnResolves ==
    /\ rpc = "calling"
    /\ invocations > opFails
    /\ rpc' = "returned"
    /\ result' = Resolved(opValue)
    /\ UNCHANGED <<attempt, wait, invocations, lastErr, waits, retryableFails,
                   fatalFails, opFails, opValue>>
    /\ UNCHANGED limVars
    /\ UNCHANGED cloneVars
    /\ UNCHANGED backVars
    /\ UNCHANGED cliVars
    /\ UNCHANGED napVars

\* The promise of fn() rejects with err: the catch block, up to the throw or
\* to the await of the timer (lines 58-64).
FnRejects(err) ==
    /\ rpc = "calling"
    /\ invocations <= opFails
    /\ attempt' = attempt + 1
    /\ lastErr' = err
    /\ retryableFails' = retryableFails + (IF RetryableError(err) THEN 1 ELSE 0)
    /\ fatalFails' = fatalFails + (IF FatalError(err) THEN 1 ELSE 0)
    /\ IF giveUp(attempt + 1, statusOf(err))
       THEN /\ rpc' = "thrown"
            /\ result' = Rejected(err)
            /\ waits' = waits
       ELSE /\ rpc' = "sleeping"
            /\ result' = result
            /\ waits' = Append(waits, wait)
    /\ UNCHANGED <<wait, invocations, opFails, opValue>>
    /\ UNCHANGED limVars
    /\ UNCHANGED cloneVars
    /\ UNCHANGED backVars
    /\ UNCHANGED cliVars
    /\ UNCHANGED napVars

\* The timer of line 64 fires: the wait is doubled (line 65) and the loop calls
\* fn again (line 57).
TimerFires ==
    /\ rpc = "sleeping"
    /\ wait' = nextWait(wait)
    /\ invocations' = invocations + 1
    /\ rpc' = "calling"
    /\ UNCHANGED <<attempt, lastErr, result, waits, retryableFails, fatalFails,
                   opFails, opValue>>
    /\ UNCHANGED limVars
    /\ UNCHANGED cloneVars
    /\ UNCHANGED backVars
    /\ UNCHANGED cliVars
    /\ UNCHANGED napVars

LimiterIdle ==
    /\ concurrency = 3
    /\ active = 0
    /\ queue = <<>>
    /\ immediates = 0
    /\ tstate = <<>>
    /\ outer = <<>>
    /\ fnResult = <<>>
    /\ startOrder = <<>>
    /\ submitOrder = <<>>

\* The operation given to withRetry fails on its first opFails calls, with
\* whatever error, and resolves with opValue on the next.
InitRetry ==
    /\ LimiterIdle
    /\ NapIdle
    /\ BackIdle
    /\ CliIdle
    /\ CloneIdle
    /\ rpc = "idle"
    /\ attempt = 0
    /\ wait = 0
    /\ invocations = 0
    /\ lastErr = NoError
    /\ result = Pending
    /\ waits = <<>>
    /\ retryableFails = 0
    /\ fatalFails = 0
    /\ opFails \in 0..MaxFails
    /\ opValue \in {"v1", "v2"}

NextRetry ==
    \/ RetryCall
    \/ FnResolves
    \/ \E err \in Errors(invocations) : FnRejects(err)
    \/ TimerFires

SpecRetry == InitRetry /\ [][NextRetry]_vars

\* The operation's promise eventually settles and the timer eventually fires.
FairSpecRetry ==
    /\ SpecRetry
    /\ WF_vars(FnResolves)
    /\ WF_vars(\E err \in Errors(invocations) : FnRejects(err))
    /\ WF_vars(TimerFires)

(***************************************************************************)
(* The source tree and the remote workspace.                               *)
(***************************************************************************)
Min(a, b) == IF a < b THEN a ELSE b

\* The parent vectors of the ordered trees with k nodes below the root,
\* numbered breadth first (the parent of node i is a node below i, and a later
\* node's parent is not an earlier one).
RECURSIVE ParentVectors(_)
ParentVectors(k) ==
    IF k = 0 THEN {<<>>}
    ELSE UNION {{Append(v, x) : x \in (IF k = 1 THEN 0 ELSE v[k - 1])..(k - 1)} :
                  v \in ParentVectors(k - 1)}

KidsOf(par, p) ==
    LET S == {i \in DOMAIN par : par[i] = p}
        first == CHOOSE i \in S : \A j \in S : i <= j
    IN [j \in 1..Cardinality(S) |-> first + j - 1]

Nodes == DOMAIN kids

TypeOf(n) ==
    CASE n % 3 = 1 -> "paragraph"
      [] n % 3 = 2 -> "divider"
      [] OTHER -> "mystery"

\* The block object the remote source holds for node n: server-managed
\* fields, the type tag and, under the key named by the type, the payload (a
\* block of the unrecognized type "mystery" comes without one).
Block(n) ==
    [object |-> "block", id |-> n, created_time |-> 1000 + n,
     has_children |-> kids[n] # <<>>, type |-> TypeOf(n)]
    @@ (CASE TypeOf(n) = "paragraph" ->
               ("paragraph" :> [rich_text |-> <<[plain_text |-> n]>>])
          [] TypeOf(n) = "divider" -> ("divider" :> <<>>)
          [] OTHER -> <<>>)

\* blocks.children.list({block_id, start_cursor, page_size}): one page of the
\* children of the node, from the cursor on.
RemoteList(node, cur, pageSize) ==
    LET all == kids[node]
        upto == Min(cur + pageSize, Len(all))
    IN [results |-> [i \in 1..(upto - cur) |-> Block(all[cur + i])],
        has_more |-> upto < Len(all),
        next_cursor |-> upto]

\* The ids the remote sink gives to n blocks appended under parent: the id of
\* a destination block is the id of its parent followed by its position.
DestParent == <<>>
NoTarget == <<0>>
ChildIds(parent) ==
    {q \in DOMAIN dest : Len(q) = Len(parent) + 1
                         /\ SubSeq(q, 1, Len(parent)) = parent}
NewIds(parent, n) ==
    [j \in 1..n |-> Append(parent, Cardinality(ChildIds(parent)) + j)]

(***************************************************************************)
(* getAllBlocks, sanitizeBlocks, cloneBlocksRecursive.                     *)
(*                                                                         *)
(* Here every remote call succeeds at its first attempt, so that withRetry *)
(* hands its result through unchanged.  A promise reaction that is due     *)
(* (ReactionDue) runs before the next callback of the event loop.          *)
(***************************************************************************)
PageSize == 100
BatchSize == 50

\* The function mapped over the blocks by sanitizeBlocks (lines 103-114).
sanitizeOne(b) ==
    ("type" :> b.type)
    @@ (IF b.type \in DOMAIN b THEN (b.type :> b[b.type]) ELSE <<>>)
    @@ (IF "has_children" \in DOMAIN b /\ b.has_children
        THEN ("has_children" :> TRUE) ELSE <<>>)

sanitizeBlocks(bs) == [i \in DOMAIN bs |-> sanitizeOne(bs[i])]

\* Mutant of slice: the end index is not looked at.
sliceToEnd(s, i, j) == SubSeq(s, i + 1, Len(s))

\* sanitized.slice(i, i + 50) (line 124), i counted from 0.
slice(s, i, j) == SubSeq(s, i + 1, Min(j, Len(s)))

\* Mutant of TaskOf: the source block is looked up by the position in the
\* batch.
TaskOfInBatch(p, idx) == blocks[p][((idx - 1) % BatchSize) + 1].id

\* The task submitted for created[idx] (lines 133-138) is named by the id of
\* blocks[idx], its `src`.
TaskOf(p, idx) == blocks[p][idx].id

\* Mutant of newBlockId: an id that no append has returned.
unknownId(cr, idx) == NoTarget

\* newBlock.id, the parent under which task idx clones (lines 132 and 136).
newBlockId(cr, idx) == cr[idx]

\* The body of task t up to its first await: src?.has_children (line 135).
TaskRecurses(t) == Block(t).has_children

\* The promise of the started task t is settled: there was nothing to
\* await, or the call it awaits has returned.
TaskFnSettled(t) ==
    /\ tstate[t] = "running"
    /\ (~TaskRecurses(t) \/ cpc[t] = "done")

\* The Promise.all of call p (line 131) is fulfilled.  NoneAwaited is its
\* mutant: the tasks are submitted and not awaited.
NoneAwaited(p) == TRUE

AllResolved(p) ==
    \A idx \in 1..Len(created[p]) : outer[TaskOf(p, idx)].st = "resolved"

\* The Promise.all of call p (line 131) is rejected: one of its promises is.
\* NeverRejected is its mutant: the rejections are not looked at.
NeverRejected(p) == FALSE

AnyRejected(p) ==
    \E idx \in 1..Len(created[p]) : outer[TaskOf(p, idx)].st = "rejected"

\* The promise of the started task t is rejected: the call it awaits has
\* thrown (line 136).
TaskFnRejected(t) ==
    /\ tstate[t] = "running"
    /\ cpc[t] = "failed"

\* A promise reaction is due: it runs before any other callback.
ReactionDue ==
    \/ \E t \in DOMAIN tstate : TaskFnSettled(t)
    \/ \E p \in Nodes : cpc[p] = "awaiting" /\ AllResolved(p)
    \/ \E t \in DOMAIN tstate : TaskFnRejected(t)
    \/ \E p \in Nodes : cpc[p] = "awaiting" /\ AnyRejected(p)

\* The condition of the batch loop (line 123).  loopEntersAlways is its
\* mutant: the body runs once more.
loopEntersAlways(i, n) == i <= n

loopEnters(i, n) == i < n

\* The tasks just started by next() run up to their first await: a task whose
\* src has children calls cloneBlocksRecursive, which requests the first page
\* (lines 119-120 and 76).
startClones(started) ==
    cpc' = [n \in Nodes |->
              IF n \in Range(started) /\ TaskRecurses(n) THEN "listing" ELSE cpc[n]]

\* The caller calls cloneBlocksRecursive(sourceRoot, destParent).
CloneCall ==
    /\ cpc[0] = "none"
    /\ cpc' = [cpc EXCEPT ![0] = "listing"]
    /\ UNCHANGED <<kids, cursor, blocks, chunkAt, created, target, dest,
                 sent, callErr, failLog>>
    /\ UNCHANGED limVars
    /\ UNCHANGED retryVars
    /\ UNCHANGED backVars
    /\ UNCHANGED cliVars
    /\ UNCHANGED napVars

\* A page of the listing of call p arrives (lines 76-79); after the last page
\* the blocks are sanitized and the first batch is sent (lines 121-128).
ListResponse(p) ==
    /\ cpc[p] = "listing"
    /\ ~ReactionDue
    /\ LET resp == RemoteList(p, cursor[p], PageSize)
           all == blocks[p] \o resp.results
           cur == IF resp.has_more THEN resp.next_cursor ELSE 0
           san == sanitizeBlocks(all)
       IN /\ blocks' = [blocks EXCEPT ![p] = all]
          /\ cursor' = [cursor EXCEPT ![p] = cur]
          /\ IF cur # 0
             THEN UNCHANGED <<cpc, sent>>
             ELSE IF loopEnters(0, Len(san))
             THEN /\ cpc' = [cpc EXCEPT ![p] = "appending"]
                  /\ sent' = [sent EXCEPT ![p] = <<slice(san, 0, BatchSize)>>]
             ELSE /\ cpc' = [cpc EXCEPT ![p] = "awaiting"]
                  /\ UNCHANGED sent
    /\ UNCHANGED <<kids, chunkAt, created, target, dest, callErr, failLog>>
    /\ UNCHANGED limVars
    /\ UNCHANGED retryVars
    /\ UNCHANGED backVars
    /\ UNCHANGED cliVars
    /\ tries' = [tries EXCEPT ![p] = 0]
    /\ UNCHANGED naps

\* The answer to the append of the current batch of call p arrives (lines
\* 125-129): the next batch is sent, or, after the last one, a task is
\* submitted to the limiter for every created block (lines 131-140).
AppendResponse(p) ==
    /\ cpc[p] = "appending"
    /\ ~ReactionDue
    /\ LET san == sanitizeBlocks(blocks[p])
           chunk == sent[p][Len(sent[p])]
           before == Cardinality(ChildIds(target[p]))
           ids == NewIds(target[p], Len(chunk))
           cr == created[p] \o ids
           i == chunkAt[p] + BatchSize
           tasks == [idx \in 1..Len(cr) |-> TaskOf(p, idx)]
       IN /\ dest' = dest @@ [q \in Range(ids) |-> chunk[q[Len(q)] - before]]
          /\ created' = [created EXCEPT ![p] = cr]
          /\ chunkAt' = [chunkAt EXCEPT ![p] = i]
          /\ IF loopEnters(i, Len(san))
             THEN /\ sent' = [sent EXCEPT ![p] =
                                Append(@, slice(san, i, i + BatchSize))]
                  /\ UNCHANGED <<cpc, target>>
                  /\ UNCHANGED limVars
             ELSE /\ cpc' = [cpc EXCEPT ![p] = "awaiting"]
                  /\ target' = [n \in Nodes |->
                                  IF \E idx \in DOMAIN cr : TaskOf(p, idx) = n
                                  THEN newBlockId(cr, CHOOSE idx \in DOMAIN cr : TaskOf(p, idx) = n)
                                  ELSE target[n]]
                  /\ limit(tasks)
                  /\ UNCHANGED sent
    /\ UNCHANGED <<kids, cursor, blocks, callErr, failLog>>
    /\ UNCHANGED retryVars
    /\ UNCHANGED backVars
    /\ UNCHANGED cliVars
    /\ tries' = [tries EXCEPT ![p] = 0]
    /\ UNCHANGED naps

\* A setImmediate callback of the limiter runs, and the task it starts, if
\* any, runs up to its first await.
CloneTurn ==
    /\ ~ReactionDue
    /\ ImmediateNext
    /\ startClones(next(active, queue).started)
    /\ UNCHANGED <<kids, cursor, blocks, chunkAt, created, target, dest,
                 sent, callErr, failLog>>
    /\ UNCHANGED retryVars
    /\ UNCHANGED backVars
    /\ UNCHANGED cliVars
    /\ UNCHANGED napVars

\* The promise of task t is fulfilled: the reactions of lines 37-42 run, and
\* the task started by next(), if any, runs up to its first await.
CloneTaskReturns(t) ==
    /\ TaskFnSettled(t)
    /\ settle(t, Resolved("undefined"))
    /\ startClones(release(Resolved("undefined"), active, queue).started)
    /\ UNCHANGED <<kids, cursor, blocks, chunkAt, created, target, dest,
                 sent, callErr, failLog>>
    /\ UNCHANGED retryVars
    /\ UNCHANGED backVars
    /\ UNCHANGED cliVars
    /\ UNCHANGED napVars

\* The Promise.all of call p is fulfilled and the call returns (line 141).
CloneReturns(p) ==
    /\ cpc[p] = "awaiting"
    /\ AllResolved(p)
    /\ cpc' = [cpc EXCEPT ![p] = "done"]
    /\ UNCHANGED <<kids, cursor, blocks, chunkAt, created, target, dest,
                 sent, callErr, failLog>>
    /\ UNCHANGED limVars
    /\ UNCHANGED retryVars
    /\ UNCHANGED backVars
    /\ UNCHANGED cliVars
    /\ UNCHANGED napVars

\* A source tree of at most MaxNodes blocks below the root, an empty
\* destination page and the limiter of line 50.
InitClone ==
    /\ RetryIdle
    /\ BackIdle
    /\ CliIdle
    /\ concurrency = 3
    /\ active = 0
    /\ queue = <<>>
    /\ immediates = 0
    /\ startOrder = <<>>
    /\ submitOrder = <<>>
    /\ \E n \in 0..MaxNodes : \E par \in ParentVectors(n) :
         /\ kids = [p \in 0..n |-> KidsOf(par, p)]
         /\ cpc = [p \in 0..n |-> "none"]
         /\ cursor = [p \in 0..n |-> 0]
         /\ blocks = [p \in 0..n |-> <<>>]
         /\ chunkAt = [p \in 0..n |-> 0]
         /\ created = [p \in 0..n |-> <<>>]
         /\ target = [p \in 0..n |-> IF p = 0 THEN DestParent ELSE NoTarget]
         /\ tstate = [t \in 1..n |-> "new"]
         /\ outer = [t \in 1..n |-> Pending]
         /\ fnResult = [t \in 1..n |-> Pending]
         /\ sent = [p \in 0..n |-> <<>>]
         /\ callErr = [p \in 0..n |-> NoError]
    /\ dest = <<>>
    /\ failLog = <<>>
    /\ tries = [p \in DOMAIN kids |-> 0]
    /\ naps = 0

NextClone ==
    \/ CloneCall
    \/ \E p \in Nodes : ListResponse(p)
    \/ \E p \in Nodes : AppendResponse(p)
    \/ CloneTurn
    \/ \E t \in DOMAIN tstate : CloneTaskReturns(t)
    \/ \E p \in Nodes : CloneReturns(p)

SpecClone == InitClone /\ [][NextClone]_vars

(***************************************************************************)
(* cloneBlocksRecursive on a root with many children and no grandchildren: *)
(* the listing takes several pages and the appending several batches.      *)
(***************************************************************************)
MaxChildren == 101

InitCloneWide ==
    /\ RetryIdle
    /\ BackIdle
    /\ CliIdle
    /\ concurrency = 3
    /\ active = 0
    /\ queue = <<>>
    /\ immediates = 0
    /\ startOrder = <<>>
    /\ submitOrder = <<>>
    /\ \E n \in 0..MaxChildren :
         /\ kids = [p \in 0..n |-> IF p = 0 THEN [i \in 1..n |-> i] ELSE <<>>]
         /\ cpc = [p \in 0..n |-> "none"]
         /\ cursor = [p \in 0..n |-> 0]
         /\ blocks = [p \in 0..n |-> <<>>]
         /\ chunkAt = [p \in 0..n |-> 0]
         /\ created = [p \in 0..n |-> <<>>]
         /\ target = [p \in 0..n |-> IF p = 0 THEN DestParent ELSE NoTarget]
         /\ tstate = [t \in 1..n |-> "new"]
         /\ outer = [t \in 1..n |-> Pending]
         /\ fnResult = [t \in 1..n |-> Pending]
         /\ sent = [p \in 0..n |-> <<>>]
         /\ callErr = [p \in 0..n |-> NoError]
    /\ dest = <<>>
    /\ failLog = <<>>
    /\ tries = [p \in DOMAIN kids |-> 0]
    /\ naps = 0

SpecCloneWide == InitCloneWide /\ [][NextClone]_vars

(***************************************************************************)
(* cloneBlocksRecursive on a root whose children need two batches, some of *)
(* the children on either side of the batch boundary having a child.       *)
(***************************************************************************)
LevelWidth == BatchSize + 10

WithChild == {1, BatchSize, BatchSize + 1}

\* the position of p among the chosen parents
RankIn(G, p) == Cardinality({g \in G : g <= p})

\* A level of LevelWidth children, those of one of the sets Gs with a child.
LevelsInit(Gs) ==
    /\ RetryIdle
    /\ BackIdle
    /\ CliIdle
    /\ concurrency = 3
    /\ active = 0
    /\ queue = <<>>
    /\ immediates = 0
    /\ startOrder = <<>>
    /\ submitOrder = <<>>
    /\ \E G \in Gs :
         LET n == LevelWidth + Cardinality(G) IN
         /\ kids = [p \in 0..n |->
                      IF p = 0 THEN [i \in 1..LevelWidth |-> i]
                      ELSE IF p \in G THEN <<LevelWidth + RankIn(G, p)>>
                      ELSE <<>>]
         /\ cpc = [p \in 0..n |-> "none"]
         /\ cursor = [p \in 0..n |-> 0]
         /\ blocks = [p \in 0..n |-> <<>>]
         /\ chunkAt = [p \in 0..n |-> 0]
         /\ created = [p \in 0..n |-> <<>>]
         /\ target = [p \in 0..n |-> IF p = 0 THEN DestParent ELSE NoTarget]
         /\ tstate = [t \in 1..n |-> "new"]
         /\ outer = [t \in 1..n |-> Pending]
         /\ fnResult = [t \in 1..n |-> Pending]
         /\ sent = [p \in 0..n |-> <<>>]
         /\ callErr = [p \in 0..n |-> NoError]
    /\ dest = <<>>
    /\ failLog = <<>>
    /\ tries = [p \in DOMAIN kids |-> 0]
    /\ naps = 0

InitCloneLevels == LevelsInit(SUBSET WithChild)

SpecCloneLevels == InitCloneLevels /\ [][NextClone]_vars

(***************************************************************************)
(* cloneBlocksRecursive when remote calls may fail for good: withRetry     *)
(* rethrows a fatal error, or the error of its fifth attempt (line 61),    *)
(* and neither getAllBlocks nor cloneBlocksRecursive catches it.           *)
(***************************************************************************)
MaxFailures == 2

\* The errors withRetry may rethrow for the call `op` made by call p.
CallErrors(p, op) ==
    {[call |-> p, op |-> op, kind |-> k] : k \in {"fatal", "exhausted"}}

swallowed(op) == op

\* What becomes of a call whose awaited remote call has thrown: nothing
\* catches the error, and the call is over (lines 119-129 have no try).
thrown(op) == "failed"

\* The listing of call p fails for good (line 76): getAllBlocks throws, and
\* so does cloneBlocksRecursive (line 119).
ListFails(p, e) ==
    /\ cpc[p] = "listing"
    /\ ~ReactionDue
    /\ Len(failLog) < MaxFailures
    /\ cpc' = [cpc EXCEPT ![p] = thrown(cpc[p])]
    /\ callErr' = [callErr EXCEPT ![p] = e]
    /\ failLog' = Append(failLog, e)
    /\ UNCHANGED <<kids, cursor, blocks, chunkAt, created, target, dest, sent>>
    /\ UNCHANGED limVars
    /\ UNCHANGED retryVars
    /\ UNCHANGED backVars
    /\ UNCHANGED cliVars
    /\ UNCHANGED napVars

\* The append of the current batch of call p fails for good (lines 125-128).
AppendFails(p, e) ==
    /\ cpc[p] = "appending"
    /\ ~ReactionDue
    /\ Len(failLog) < MaxFailures
    /\ cpc' = [cpc EXCEPT ![p] = thrown(cpc[p])]
    /\ callErr' = [callErr EXCEPT ![p] = e]
    /\ failLog' = Append(failLog, e)
    /\ UNCHANGED <<kids, cursor, blocks, chunkAt, created, target, dest, sent>>
    /\ UNCHANGED limVars
    /\ UNCHANGED retryVars
    /\ UNCHANGED backVars
    /\ UNCHANGED cliVars
    /\ UNCHANGED napVars

\* The promise of task t is rejected (line 136 throws): the reactions of
\* lines 37-42 run, and the task started by next(), if any, runs up to its
\* first await.
CloneTaskThrows(t) ==
    /\ TaskFnRejected(t)
    /\ settle(t, Rejected(callErr[t]))
    /\ startClones(release(Rejected(callErr[t]), active, queue).started)
    /\ UNCHANGED <<kids, cursor, blocks, chunkAt, created, target, dest,
                 sent, callErr, failLog>>
    /\ UNCHANGED retryVars
    /\ UNCHANGED backVars
    /\ UNCHANGED cliVars
    /\ UNCHANGED napVars

cancelQueued(q) == <<>>

\* The queue of the limiter after a Promise.all has rejected: the rejection
\* reaches the caller only, no task is taken from the queue (lines 131-140).
afterRejection(q) == q

\* The Promise.all of call p is rejected with the error of the task that was
\* rejected, and the call throws it (lines 131-140).
CloneThrows(p) ==
    /\ cpc[p] = "awaiting"
    /\ AnyRejected(p)
    /\ \E idx \in 1..Len(created[p]) :
         /\ outer[TaskOf(p, idx)].st = "rejected"
         /\ callErr' = [callErr EXCEPT ![p] = outer[TaskOf(p, idx)].err]
    /\ cpc' = [cpc EXCEPT ![p] = "failed"]
    /\ UNCHANGED <<kids, cursor, blocks, chunkAt, created, target, dest,
                 sent, failLog>>
    /\ queue' = afterRejection(queue)
    /\ UNCHANGED <<concurrency, active, immediates, tstate, outer, fnResult,
                   startOrder, submitOrder>>
    /\ UNCHANGED retryVars
    /\ UNCHANGED backVars
    /\ UNCHANGED cliVars
    /\ UNCHANGED napVars

NextCloneFail ==
    \/ CloneCall
    \/ \E p \in Nodes : ListResponse(p)
    \/ \E p \in Nodes : AppendResponse(p)
    \/ CloneTurn
    \/ \E t \in DOMAIN tstate : CloneTaskReturns(t)
    \/ \E p \in Nodes : CloneReturns(p)
    \/ \E p \in Nodes : \E e \in CallErrors(p, "list") : ListFails(p, e)
    \/ \E p \in Nodes : \E e \in CallErrors(p, "append") : AppendFails(p, e)
    \/ \E t \in DOMAIN tstate : CloneTaskThrows(t)
    \/ \E p \in Nodes : CloneThrows(p)

SpecCloneFail == InitClone /\ [][NextCloneFail]_vars

\* The same on a level of two batches.
InitCloneLevelsFail == LevelsInit({{}, {BatchSize}, {1, BatchSize + 1}})

SpecCloneLevelsFail == InitCloneLevelsFail /\ [][NextCloneFail]_vars

(***************************************************************************)
(* cloneBlocksRecursive when a remote call may fail with an error that     *)
(* withRetry retries: the call sleeps for the backoff wait (line 64) and   *)
(* is made again.                                                          *)
(***************************************************************************)
MaxNaps == 2

backoffYields(a, q) == next(a - 1, q)

\* await new Promise(r => setTimeout(r, wait)) (line 64) runs inside the
\* function of the task: nothing is said to the limiter, whose active count
\* and queue stay as they are
duringBackoff(a, q) == [active |-> a, queue |-> q, started |-> <<>>]

Waiting(op) == IF op = "listing" THEN "list-wait" ELSE "append-wait"

\* The remote call of call p fails with a retryable error before the last
\* attempt (lines 58-64): withRetry starts its backoff wait.
CallBacksOff(p) ==
    /\ cpc[p] \in {"listing", "appending"}
    /\ ~ReactionDue
    /\ naps < MaxNaps
    /\ ~giveUp(tries[p] + 1, NoStatus)
    /\ cpc' = [cpc EXCEPT ![p] = Waiting(cpc[p])]
    /\ tries' = [tries EXCEPT ![p] = @ + 1]
    /\ naps' = naps + 1
    /\ LET r == duringBackoff(active, queue)
       IN /\ active' = r.active
          /\ queue' = r.queue
          /\ tstate' = startTasks(r.started)
          /\ startOrder' = startOrder \o r.started
    /\ UNCHANGED <<concurrency, immediates, outer, fnResult, submitOrder>>
    /\ UNCHANGED <<kids, cursor, blocks, chunkAt, created, target, dest, sent,
                   callErr, failLog>>
    /\ UNCHANGED retryVars
    /\ UNCHANGED backVars
    /\ UNCHANGED cliVars

\* The timer of the backoff wait of call p fires: the call is made again
\* (lines 64-65 and 57).
BackoffEnds(p) ==
    /\ cpc[p] \in {"list-wait", "append-wait"}
    /\ ~ReactionDue
    /\ cpc' = [cpc EXCEPT ![p] = IF cpc[p] = "list-wait" THEN "listing" ELSE "appending"]
    /\ UNCHANGED <<kids, cursor, blocks, chunkAt, created, target, dest, sent,
                   callErr, failLog>>
    /\ UNCHANGED limVars
    /\ UNCHANGED retryVars
    /\ UNCHANGED backVars
    /\ UNCHANGED cliVars
    /\ UNCHANGED napVars

NextCloneRetry ==
    \/ CloneCall
    \/ \E p \in Nodes : ListResponse(p)
    \/ \E p \in Nodes : AppendResponse(p)
    \/ CloneTurn
    \/ \E t \in DOMAIN tstate : CloneTaskReturns(t)
    \/ \E p \in Nodes : CloneReturns(p)
    \/ \E p \in Nodes : CallBacksOff(p)
    \/ \E p \in Nodes : BackoffEnds(p)

SpecCloneRetry == InitClone /\ [][NextCloneRetry]_vars

(***************************************************************************)
(* Action links: buildActionUrl of src/index.js and verifySignature of the *)
(* backends.                                                               *)
(*                                                                         *)
(* A string is the sequence of its characters and `undefined` is a value   *)
(* that is no string.  A query string is the function from its keys to     *)
(* their values: URLSearchParams writes and the backend's URL parser reads *)
(* the same percent-encoding, which gives every string back.               *)
(***************************************************************************)
Undefined == <<"<undefined>">>

\* !v for a string or undefined.
Falsy(v) == v = Undefined \/ v = <<>>

\* v || w.
Or(v, w) == IF Falsy(v) THEN w ELSE v

\* The string URLSearchParams stores for the value v (line 475).
ToStr(v) == IF v = Undefined THEN <<"u", "n", "d", "e", "f", "i", "n", "e", "d">> ELSE v

\* obj[k], query.get(k): undefined when the key is absent.
Get(m, k) == IF k \in DOMAIN m THEN m[k] ELSE Undefined

\* fields.join(sep).
RECURSIVE join(_, _)
join(fields, sep) ==
    IF fields = <<>> THEN <<>>
    ELSE IF Len(fields) = 1 THEN fields[1]
    ELSE fields[1] \o sep \o join(Tail(fields), sep)

\* n.toString() for a number n >= 0.
RECURSIVE toString(_)
toString(n) ==
    LET digit(d) == <<"0", "1", "2", "3", "4", "5", "6", "7", "8", "9">>[d + 1]
    IN IF n < 10 THEN <<digit(n)>> ELSE toString(n \div 10) \o <<digit(n % 10)>>

\* The hex digest of HMAC-SHA256 under the key `secret`: two digests are
\* equal only for the same key and the same payload ("#" is in no key).
hmacSign(secret, payload) == <<"#">> \o secret \o <<"#">> \o payload

\* The keys of the signed payload, in order (line 472).
SignedKeys == <<"taskId", "action", "ts", "nonce", "tasksDbId", "calendarDbId">>

\* buildActionUrl(baseUrl, action, params, secret) (lines 469-479), with the
\* values Date.now().toString() and crypto.randomUUID() gave it: the action
\* in the path of the link, and the query of the link.
buildActionUrl(action, params, secret, ts, nonce) ==
    LET ordered == [i \in DOMAIN SignedKeys |->
                      Or(Get(params, SignedKeys[i]),
                         IF SignedKeys[i] = "action" THEN action ELSE <<>>)]
        sig == IF Falsy(secret) THEN Undefined
               ELSE hmacSign(secret, join(ordered, <<"|">>))
        sp == [k \in DOMAIN params \cup {"action", "ts", "nonce"} |->
                 CASE k = "action" -> ToStr(action)
                   [] k = "ts" -> ToStr(ts)
                   [] k = "nonce" -> ToStr(nonce)
                   [] OTHER -> ToStr(params[k])]
    IN [path |-> action,
        query |-> IF Falsy(sig) THEN sp ELSE ("sig" :> sig) @@ sp]

\* Mutant of verifySignature: the digest is not compared.
verifyPresenceOnly(secret, query) ==
    ~(\/ Falsy(Get(query, "sig")) \/ Falsy(Get(query, "action"))
      \/ Falsy(Get(query, "taskId")) \/ Falsy(Get(query, "ts"))
      \/ Falsy(Get(query, "nonce")))

\* verifySignature(secret, query) (vercel/api/index.js lines 16-22).
verifySignature(secret, query) ==
    LET sig == Get(query, "sig")
        action == Get(query, "action")
        taskId == Get(query, "taskId")
        ts == Get(query, "ts")
        nonce == Get(query, "nonce")
        tasksDbId == Get(query, "tasksDbId")
        calendarDbId == Get(query, "calendarDbId")
        payload == join(<<taskId, action, ts, nonce,
                          Or(tasksDbId, <<>>), Or(calendarDbId, <<>>)>>, <<"|">>)
    IN IF \/ Falsy(sig) \/ Falsy(action) \/ Falsy(taskId)
          \/ Falsy(ts) \/ Falsy(nonce)
       THEN FALSE
       ELSE hmacSign(secret, payload) = sig

(***************************************************************************)
(* The action backend: handleAction of backend-template/vercel/api/index.js *)
(* (the Workers variant of the same handler differs in its framing only).  *)
(* A request is received and checked in one step; after that each answer   *)
(* of the workspace resumes its handler.                                    *)
(***************************************************************************)
MaxRequests == 4
MaxTicks == 4
Minute == 60000
Tick == Minute \div 3

StartS == <<"s", "t", "a", "r", "t">>
PauseS == <<"p", "a", "u", "s", "e">>
StopS == <<"s", "t", "o", "p">>
ActionNames == {StartS, PauseS, StopS}

Secret == <<"k", "1">>
OtherSecret == <<"k", "2">>
Token == <<"n", "t">>
TaskId == <<"t", "1">>
OtherTaskId == <<"t", "2">>
TasksDb == <<"d", "b">>
CalendarDb == <<"c", "a", "l">>
Nonce == <<"u", "u", "i", "d">>

\* The task page's properties: with the tracked properties (Status of type
\* status), with a Status of another type, and without tracked properties.
PageFull ==
    ("Status" :> [type |-> "status", name |-> "Not started"])
    @@ ("Timer Running" :> [checkbox |-> FALSE])
    @@ ("Last Started At" :> [date |-> <<>>])
    @@ ("Total Tracked (min)" :> [number |-> 0])

PageSelect == [PageFull EXCEPT !["Status"] = [type |-> "select", name |-> "Not started"]]

PageBare == ("Name" :> [title |-> "task"])

Pages == {PageFull, PageSelect, PageBare}

\* Math.round(num / den) for den > 0.
MathRound(num, den) == (2 * num + den) \div (2 * den)

\* Mutant of computeAccumulatedMinutes: the total is replaced, not added to.
computeIntervalOnly(lastIso, total, to) ==
    IF lastIso = <<>> THEN total
    ELSE LET diffMin == MathRound(to - lastIso[1], Minute)
         IN IF diffMin > 0 THEN diffMin ELSE 0

\* computeAccumulatedMinutes(lastIso, total) (lines 80-88) when Date.now() is
\* `to`; lastIso is <<>> for null and <<t>> for the instant t.
computeAccumulatedMinutes(lastIso, total, to) ==
    IF lastIso = <<>> THEN total
    ELSE LET diffMin == MathRound(to - lastIso[1], Minute)
         IN total + (IF diffMin > 0 THEN diffMin ELSE 0)

\* statusTo(name) (lines 70-73): undefined, which spreads to nothing, unless
\* the page has a Status of type status.
statusTo(props, name) ==
    IF "Status" \notin DOMAIN props \/ props["Status"].type # "status" THEN <<>>
    ELSE ("status" :> [name |-> name])

\* lastStartedProp?.date?.start || ... || null (lines 100 and 113).
lastIsoOf(props) ==
    IF "Last Started At" \in DOMAIN props THEN props["Last Started At"].date ELSE <<>>

\* totalProp?.number || 0 (lines 101 and 114).
currentTotalOf(props) ==
    IF "Total Tracked (min)" \in DOMAIN props
    THEN props["Total Tracked (min)"].number ELSE 0

\* The properties the handler sends to pages.update for the action, from the
\* properties props it read, at the instant t (lines 90-123).
updateFor(action, props, t) ==
    LET newTotal == computeAccumulatedMinutes(lastIsoOf(props), currentTotalOf(props), t)
        running(b) == IF "Timer Running" \in DOMAIN props
                      THEN ("Timer Running" :> [checkbox |-> b]) ELSE <<>>
        last(d) == IF "Last Started At" \in DOMAIN props
                   THEN ("Last Started At" :> [date |-> d]) ELSE <<>>
        total == IF "Total Tracked (min)" \in DOMAIN props
                 THEN ("Total Tracked (min)" :> [number |-> newTotal]) ELSE <<>>
    IN CASE action = StartS ->
              statusTo(props, "In Progress") @@ running(TRUE) @@ last(<<t>>)
         [] action = PauseS ->
              statusTo(props, "Paused") @@ running(FALSE) @@ last(<<>>) @@ total
         [] OTHER ->
              statusTo(props, "Done") @@ running(FALSE) @@ last(<<>>) @@ total

\* Mutant of applyUpdate: a number sent is added to the number stored.
applyAdding(pg, upd) ==
    [k \in DOMAIN pg |->
        IF k \in DOMAIN upd
        THEN IF "number" \in DOMAIN upd[k]
             THEN [number |-> pg[k].number + upd[k].number]
             ELSE upd[k] @@ pg[k]
        ELSE pg[k]]

\* The page after the workspace has applied the update upd to pg: the
\* properties named in upd take the values given.
applyUpdate(pg, upd) ==
    [k \in DOMAIN pg |-> IF k \in DOMAIN upd THEN upd[k] @@ pg[k] ELSE pg[k]]

NewRequest ==
    [pc |-> "new", path |-> <<>>, query |-> <<>>, task |-> <<>>, nowIso |-> 0,
     newTotal |-> 0, update |-> <<>>, status |-> 0]

\* The answer of the gate of handleAction (lines 51-55): 500, 401, or 0 when
\* the request goes through.
gate(e, query) ==
    IF Falsy(e.APP_SECRET) THEN 500
    ELSE IF Falsy(e.NOTION_TOKEN) THEN 500
    ELSE IF ~verifySignature(e.APP_SECRET, query) THEN 401
    ELSE 0

Answered(r, code) == [reqs EXCEPT ![r].pc = "answered", ![r].status = code]

\* The request r for /api/a/<path> with the given query arrives (lines
\* 149-161 and 50-61): it is answered at once, or its page is requested.
Receive(r, path, query) ==
    /\ reqs[r].pc = "new"
    /\ LET code == gate(env, query)
           rq == [reqs[r] EXCEPT !.path = path, !.query = query]
       IN IF code # 0
          THEN /\ reqs' = [reqs EXCEPT ![r] = [rq EXCEPT !.pc = "answered", !.status = code]]
               /\ UNCHANGED notionLog
          ELSE /\ reqs' = [reqs EXCEPT ![r] = [rq EXCEPT !.pc = "retrieving"]]
               /\ notionLog' = Append(notionLog,
                     [req |-> r, op |-> "pages.retrieve", id |-> Get(query, "taskId")])
    /\ UNCHANGED <<env, now, page, calendar, lenient>>
    /\ UNCHANGED limVars
    /\ UNCHANGED retryVars
    /\ UNCHANGED cloneVars
    /\ UNCHANGED cliVars
    /\ UNCHANGED napVars

\* pages.retrieve answers (line 61): with an error for a page that does not
\* exist, which the handler answers with 500 (lines 179-182); otherwise the
\* handler computes its update and sends it (lines 62-124).
RetrieveResponse(r) ==
    /\ reqs[r].pc = "retrieving"
    /\ IF Get(reqs[r].query, "taskId") # TaskId
       THEN /\ reqs' = Answered(r, 500)
            /\ UNCHANGED notionLog
       ELSE LET upd == updateFor(reqs[r].path, page, now)
                tot == computeAccumulatedMinutes(lastIsoOf(page), currentTotalOf(page), now)
            IN /\ reqs' = [reqs EXCEPT ![r].pc = "updating", ![r].task = page,
                                       ![r].nowIso = now, ![r].update = upd,
                                       ![r].newTotal = tot]
               /\ notionLog' = Append(notionLog,
                     [req |-> r, op |-> "pages.update", id |-> TaskId])
    /\ UNCHANGED <<env, now, page, calendar, lenient>>
    /\ UNCHANGED limVars
    /\ UNCHANGED retryVars
    /\ UNCHANGED cloneVars
    /\ UNCHANGED cliVars
    /\ UNCHANGED napVars

\* pages.update answers (line 76).  An update that names a property the page
\* does not have is refused by the workspace, or, by a lenient workspace,
\* applied without that property; a refusal is answered with 500.
\* After a stop with a calendarDbId the tasks database is requested (lines
\* 126-128).
UpdateResponse(r) ==
    /\ reqs[r].pc = "updating"
    /\ LET upd == reqs[r].update
           unknown == DOMAIN upd \ DOMAIN page
       IN IF unknown # {} /\ ~lenient
          THEN /\ reqs' = Answered(r, 500)
               /\ UNCHANGED <<page, notionLog>>
          ELSE /\ page' = applyUpdate(page, upd)
               /\ IF reqs[r].path = StopS /\ ~Falsy(Get(reqs[r].query, "calendarDbId"))
                  THEN /\ reqs' = [reqs EXCEPT ![r].pc = "dbRetrieving"]
                       /\ notionLog' = Append(notionLog,
                             [req |-> r, op |-> "databases.retrieve",
                              id |-> Get(reqs[r].query, "tasksDbId")])
                  ELSE /\ reqs' = Answered(r, 200)
                       /\ UNCHANGED notionLog
    /\ UNCHANGED <<env, now, calendar, lenient>>
    /\ UNCHANGED limVars
    /\ UNCHANGED retryVars
    /\ UNCHANGED cloneVars
    /\ UNCHANGED cliVars
    /\ UNCHANGED napVars

\* databases.retrieve answers (line 128): the Calendar entry is sent (lines
\* 132-140).
DbRetrieveResponse(r) ==
    /\ reqs[r].pc = "dbRetrieving"
    /\ reqs' = [reqs EXCEPT ![r].pc = "creating"]
    /\ notionLog' = Append(notionLog,
          [req |-> r, op |-> "pages.create", id |-> Get(reqs[r].query, "calendarDbId")])
    /\ UNCHANGED <<env, now, page, calendar, lenient>>
    /\ UNCHANGED limVars
    /\ UNCHANGED retryVars
    /\ UNCHANGED cloneVars
    /\ UNCHANGED cliVars
    /\ UNCHANGED napVars

\* pages.create answers (line 132): the entry exists and the request is
\* answered (line 143).
CreateResponse(r) ==
    /\ reqs[r].pc = "creating"
    /\ calendar' = Append(calendar,
          [parent |-> Get(reqs[r].query, "calendarDbId"), When |-> reqs[r].nowIso,
           Duration |-> reqs[r].newTotal, Task |-> Get(reqs[r].query, "taskId")])
    /\ reqs' = Answered(r, 200)
    /\ UNCHANGED <<env, now, page, notionLog, lenient>>
    /\ UNCHANGED limVars
    /\ UNCHANGED retryVars
    /\ UNCHANGED cloneVars
    /\ UNCHANGED cliVars
    /\ UNCHANGED napVars

\* Time passes.
TickClock ==
    /\ now < Minute + MaxTicks * Tick
    /\ now' = now + Tick
    /\ UNCHANGED <<env, page, reqs, notionLog, calendar, lenient>>
    /\ UNCHANGED limVars
    /\ UNCHANGED retryVars
    /\ UNCHANGED cloneVars
    /\ UNCHANGED cliVars
    /\ UNCHANGED napVars

\* The query of a client that signs as the backend documents it (lines 6-7 of
\* the backend): the digest, under key, of the six fields joined by "|".
\* cal is Undefined when there is no Calendar database.
SignedQuery(action, cal, key, ts) ==
    LET fields == ("taskId" :> TaskId) @@ ("action" :> action) @@ ("ts" :> ts)
                  @@ ("nonce" :> Nonce) @@ ("tasksDbId" :> TasksDb)
                  @@ (IF cal = Undefined THEN <<>> ELSE ("calendarDbId" :> cal))
        payload == join(<<TaskId, action, ts, Nonce, TasksDb, Or(cal, <<>>)>>, <<"|">>)
    IN ("sig" :> hmacSign(key, payload)) @@ fields

\* What a third party can make of a query: drop a parameter, empty ts, or
\* point the request at another page.
Without(q, k) == [j \in DOMAIN q \ {k} |-> q[j]]

Variants(q) ==
    {q} \cup {Without(q, k) : k \in {"sig", "action", "taskId", "ts", "nonce"}}
        \cup {[q EXCEPT !["taskId"] = OtherTaskId], [q EXCEPT !["ts"] = <<>>]}

\* The link the deployment writes on a task row (src/index.js lines 609-613).
RowLink(action, cal, ts) ==
    buildActionUrl(action,
                   [taskId |-> TaskId, tasksDbId |-> TasksDb, calendarDbId |-> cal],
                   Secret, ts, Nonce)

Calendars == {Undefined, CalendarDb}

\* The requests that reach the gate: the links of the deployment, and the
\* requests of third parties.
GateRequests ==
    {RowLink(a, cal, toString(Minute)) : a \in ActionNames, cal \in Calendars}
    \cup UNION {{[path |-> p, query |-> v] :
                   p \in ActionNames,
                   v \in Variants(SignedQuery(a, cal, key, toString(Minute)))} :
                a \in ActionNames, cal \in Calendars, key \in {Secret, OtherSecret}}

\* One request at the gate of a deployed backend, whose environment may lack
\* a variable.
InitGate ==
    /\ LimiterIdle
    /\ NapIdle
    /\ RetryIdle
    /\ CloneIdle
    /\ CliIdle
    /\ env \in [APP_SECRET : {Undefined, Secret}, NOTION_TOKEN : {Undefined, Token}]
    /\ now = Minute
    /\ page \in Pages
    /\ reqs = [r \in {1} |-> NewRequest]
    /\ notionLog = <<>>
    /\ calendar = <<>>
    /\ lenient \in BOOLEAN

NextGate ==
    \/ \E rq \in GateRequests : Receive(1, rq.path, rq.query)
    \/ \E r \in DOMAIN reqs : RetrieveResponse(r)
    \/ \E r \in DOMAIN reqs : UpdateResponse(r)
    \/ \E r \in DOMAIN reqs : DbRetrieveResponse(r)
    \/ \E r \in DOMAIN reqs : CreateResponse(r)

SpecGate == InitGate /\ [][NextGate]_vars

\* A sequence of correctly signed requests on one task page, one after the
\* other, while time passes.  The links were signed when the backend was
\* deployed, at the instant Minute.
InitTimer ==
    /\ LimiterIdle
    /\ NapIdle
    /\ RetryIdle
    /\ CloneIdle
    /\ CliIdle
    /\ env = [APP_SECRET |-> Secret, NOTION_TOKEN |-> Token]
    /\ now = Minute
    /\ page \in {PageFull, PageSelect}
    /\ reqs = [r \in 1..MaxRequests |-> NewRequest]
    /\ notionLog = <<>>
    /\ calendar = <<>>
    /\ lenient \in BOOLEAN

\* The next request arrives, from a link of a deployment with a Calendar
\* database.
Arrive(r, action) ==
    /\ \A u \in DOMAIN reqs : reqs[u].pc \in {"new", "answered"}
    /\ \A u \in DOMAIN reqs : u < r => reqs[u].pc # "new"
    /\ Receive(r, action, SignedQuery(action, CalendarDb, Secret, toString(Minute)))

NextTimer ==
    \/ \E r \in DOMAIN reqs : \E a \in ActionNames : Arrive(r, a)
    \/ \E r \in DOMAIN reqs : RetrieveResponse(r)
    \/ \E r \in DOMAIN reqs : UpdateResponse(r)
    \/ \E r \in DOMAIN reqs : DbRetrieveResponse(r)
    \/ \E r \in DOMAIN reqs : CreateResponse(r)
    \/ TickClock

SpecTimer == InitTimer /\ [][NextTimer]_vars

\* Two or more requests to pause or stop a running task whose handlers
\* overlap: each handler runs between its awaits (lines 61, 76, 128, 132),
\* and the answers of the workspace arrive in any order.  The task was
\* started at the instant Minute.
MaxRacers == 2

InitRace ==
    /\ LimiterIdle
    /\ NapIdle
    /\ RetryIdle
    /\ CloneIdle
    /\ CliIdle
    /\ env = [APP_SECRET |-> Secret, NOTION_TOKEN |-> Token]
    /\ now = Minute
    /\ \E pg \in {PageFull, PageSelect} :
         page = [pg EXCEPT !["Timer Running"] = [checkbox |-> TRUE],
                           !["Last Started At"] = [date |-> <<Minute>>]]
    /\ reqs = [r \in 1..MaxRacers |-> NewRequest]
    /\ notionLog = <<>>
    /\ calendar = <<>>
    /\ lenient \in BOOLEAN

NextRace ==
    \/ \E r \in DOMAIN reqs : \E a \in {PauseS, StopS} :
          Receive(r, a, SignedQuery(a, CalendarDb, Secret, toString(Minute)))
    \/ \E r \in DOMAIN reqs : RetrieveResponse(r)
    \/ \E r \in DOMAIN reqs : UpdateResponse(r)
    \/ \E r \in DOMAIN reqs : DbRetrieveResponse(r)
    \/ \E r \in DOMAIN reqs : CreateResponse(r)
    \/ TickClock

SpecRace == InitRace /\ [][NextRace]_vars

(***************************************************************************)
(* The webhook route of the backend (vercel/api/index.js lines 163-177)    *)
(* and readBody (lines 34-48).                                             *)
(***************************************************************************)
Methods == {"GET", "POST", "PUT"}

\* The bodies a request may carry: the data received and whether the
\* content-type header includes application/json.
Bodies == [data : {"", "{}", "null", "{", "hi"}, json : BOOLEAN]

\* JSON.parse(data): whether it throws, and whether its value is truthy.
ParseThrows(data) == data \in {"", "{", "hi"}
ParseTruthy(data) == data = "{}"

\* Mutant of webhookGate: the secret is only required to be present.
webhookGatePresence(method, secret, provided) ==
    IF method # "POST" THEN 405
    ELSE IF Falsy(secret) THEN 500
    ELSE IF Falsy(provided) THEN 401
    ELSE 0

\* The answer of the webhook route before the body is read (lines 165-170):
\* 405, 500, 401, or 0 when the request goes through.
webhookGate(method, secret, provided) ==
    IF method # "POST" THEN 405
    ELSE IF Falsy(secret) THEN 500
    ELSE IF Falsy(provided) \/ provided # secret THEN 401
    ELSE 0

NewWebhook ==
    [pc |-> "new", method |-> "", provided |-> Undefined,
     body |-> [data |-> "", json |-> FALSE],
     bodyRead |-> FALSE, received |-> FALSE, status |-> 0]

\* A request for /api/webhook/<name> arrives (lines 163-171): it is answered
\* at once, or the handler starts to read the body.
WebhookReceive(r, method, provided, body) ==
    /\ reqs[r].pc = "new"
    /\ LET code == webhookGate(method, env.APP_SECRET, provided)
           rq == [reqs[r] EXCEPT !.method = method, !.provided = provided,
                                 !.body = body]
       IN reqs' = [reqs EXCEPT ![r] =
                     IF code # 0
                     THEN [rq EXCEPT !.pc = "answered", !.status = code]
                     ELSE [rq EXCEPT !.pc = "reading"]]
    /\ UNCHANGED <<env, now, page, notionLog, calendar, lenient>>
    /\ UNCHANGED limVars
    /\ UNCHANGED retryVars
    /\ UNCHANGED cloneVars
    /\ UNCHANGED cliVars
    /\ UNCHANGED napVars

\* The body has arrived (lines 38-45): readBody resolves with null for no
\* data, with the parsed value for JSON, with the data otherwise, or rejects
\* when JSON.parse throws, which is answered with 500 (lines 178-181).
WebhookBodyEnd(r) ==
    /\ reqs[r].pc = "reading"
    /\ LET b == reqs[r].body
           throws == b.data # "" /\ b.json /\ ParseThrows(b.data)
           truthy == /\ b.data # ""
                     /\ IF b.json THEN ParseTruthy(b.data) ELSE TRUE
       IN reqs' = [reqs EXCEPT ![r].pc = "answered", ![r].bodyRead = TRUE,
                                ![r].received = (~throws /\ truthy),
                                ![r].status = IF throws THEN 500 ELSE 200]
    /\ UNCHANGED <<env, now, page, notionLog, calendar, lenient>>
    /\ UNCHANGED limVars
    /\ UNCHANGED retryVars
    /\ UNCHANGED cloneVars
    /\ UNCHANGED cliVars
    /\ UNCHANGED napVars

InitWebhook ==
    /\ LimiterIdle
    /\ NapIdle
    /\ RetryIdle
    /\ CloneIdle
    /\ CliIdle
    /\ env \in [APP_SECRET : {Undefined, <<>>, Secret}, NOTION_TOKEN : {Undefined, Token}]
    /\ now = Minute
    /\ page = PageFull
    /\ reqs = [r \in {1} |-> NewWebhook]
    /\ notionLog = <<>>
    /\ calendar = <<>>
    /\ lenient = FALSE

NextWebhook ==
    \/ \E m \in Methods : \E s \in {Undefined, <<>>, Secret, OtherSecret} :
         \E b \in Bodies : WebhookReceive(1, m, s, b)
    \/ \E r \in DOMAIN reqs : WebhookBodyEnd(r)

SpecWebhook == InitWebhook /\ [][NextWebhook]_vars

(***************************************************************************)
(* The command line (src/index.js:304-406) and the operations it runs.     *)
(* An operation runs until it awaits a remote call (made through           *)
(* withRetry), and goes on when the call has succeeded or has failed for   *)
(* good.  A configuration is what an operation leaves behind: where it     *)
(* waits, its local variables, the remote calls issued so far and, once it *)
(* is over, what it threw or returned.                                     *)
(***************************************************************************)
MinIdLength == 32

IdLengths == {0, MinIdLength - 1, MinIdLength, MinIdLength + 4}

Unsettled == [kind |-> "pending", val |-> <<>>]

Throw(log, msg) ==
    [pc |-> <<"exit">>, loc |-> <<>>, log |-> log,
     out |-> [kind |-> "threw", val |-> msg]]

Return(log, value) ==
    [pc |-> <<"exit">>, loc |-> <<>>, log |-> log,
     out |-> [kind |-> "returned", val |-> value]]

\* fn awaits withRetry(() => ensureClient().<op>(arg))
Call(log, fn, op, arg, loc) ==
    [pc |-> <<fn, op>>, loc |-> loc,
     log |-> Append(log, [op |-> op, by |-> fn, arg |-> arg, answer |-> "none"]),
     out |-> Unsettled]

\* the error a remote call fails with, as withRetry rethrows it
RemoteError(op) == <<"remote error", op>>

assertIdAny(len) == TRUE

assertIdLike(len) == len >= MinIdLength

ensureClient(c) == c.token

databaseParentAny(parentType) == TRUE

databaseParentOk(parentType) == parentType = "page"

TemplateKinds == {"page", "database", "view", "<none>"}

TemplateChildren == {0, 1, BatchSize, BatchSize + 1}

createFromJsonTemplate(c) ==
    IF ~ensureClient(c) THEN Throw(<<>>, <<"Missing Notion token">>)
    ELSE IF ~c.parses THEN Throw(<<>>, <<"SyntaxError">>)
    ELSE IF c.kind = "page"
    THEN Call(<<>>, "createFromJsonTemplate", "pages.create",
              [parent |-> IF c.parentType = "page" THEN "page_id" ELSE "database_id"],
              [i |-> 0])
    ELSE IF c.kind = "database"
    THEN IF ~databaseParentOk(c.parentType)
         THEN Throw(<<>>, <<"Database templates must be created under a page">>)
         ELSE Call(<<>>, "createFromJsonTemplate", "databases.create",
                   [parent |-> "page_id"], <<>>)
    ELSE Throw(<<>>, <<"Unknown template kind">>)

\* createFromJsonTemplate goes on after the remote call it awaited
createFromJsonTemplateNext(c, pc, loc, log, ok) ==
    IF ~ok THEN Throw(log, RemoteError(pc[2]))
    ELSE IF pc[2] = "databases.create" THEN Return(log, <<"database">>)
    ELSE LET i == IF pc[2] = "pages.create" THEN 0 ELSE loc.i + BatchSize IN
         IF loopEnters(i, c.children)
         THEN Call(log, "createFromJsonTemplate", "blocks.children.append",
                   [from |-> i, to |-> IF i + BatchSize < c.children
                                       THEN i + BatchSize ELSE c.children],
                   [i |-> i])
         ELSE Return(log, <<"page">>)

fromJson(c) ==
    IF ~assertIdLike(c.targetId) THEN Throw(<<>>, <<"looks invalid", "targetId">>)
    ELSE IF ~c.fileExists THEN Throw(<<>>, <<"Template file not found">>)
    ELSE createFromJsonTemplate(c)

FromJsonRuns ==
    [cmd : {"from-json"}, targetId : IdLengths, fileExists : BOOLEAN,
     token : BOOLEAN, parses : BOOLEAN, kind : TemplateKinds,
     parentType : {"page", "database"}, children : TemplateChildren]

ListPages == {1, 2}

\* exportToTemplate has its template; the to-json handler writes it out
toJsonExported(c, log, kind) ==
    IF c.outFile = "none"
    THEN [pc |-> <<"exit">>, loc |-> <<>>, log |-> log,
          out |-> [kind |-> "printed", val |-> <<kind>>]]
    ELSE IF c.outFile = "unwritable" THEN Throw(log, <<"EACCES">>)
    ELSE Return(log, <<kind>>)

cloneDatabaseUnchecked(log) ==
    Call(log, "cloneFromMaster", "databases.create", [parent |-> "page_id"], <<>>)

\* the master is a database: the target is first retrieved as a page
cloneDatabase(log) ==
    Call(log, "cloneFromMaster", "pages.retrieve", [id |-> "targetId"], <<>>)

\* cloneFromMaster after exportMaster has returned
cloneFromMasterExported(c, log, kind) ==
    IF kind = "page"
    THEN IF c.mode = "into_database"
         THEN Call(log, "getDatabaseTitlePropName", "databases.retrieve",
                   [id |-> "targetId"], <<>>)
         ELSE Call(log, "cloneFromMaster", "pages.create", [parent |-> "page_id"], <<>>)
    ELSE cloneDatabase(log)

\* cloneFromMaster goes on after the call it awaited; the replication of the
\* blocks (cloneBlocksRecursive) is one step here
cloneFromMasterNext(c, pc, loc, log, ok) ==
    IF pc = <<"cloneFromMaster", "pages.retrieve">>
    THEN IF ok THEN cloneDatabaseUnchecked(log)
         ELSE Throw(log, <<"When cloning a database, targetId must be a page_id">>)
    ELSE IF ~ok THEN Throw(log, RemoteError(pc[2]))
    ELSE IF pc[1] = "getDatabaseTitlePropName"
    THEN Call(log, "cloneFromMaster", "pages.create", [parent |-> "database_id"], <<>>)
    ELSE IF pc[2] = "pages.create"
    THEN Call(log, "cloneFromMaster", "cloneBlocksRecursive", [id |-> "masterId"], <<>>)
    ELSE IF pc[2] = "cloneBlocksRecursive" THEN Return(log, <<"page">>)
    ELSE Return(log, <<"database">>)

exported(c, log, kind) ==
    IF c.cmd = "from-master" THEN cloneFromMasterExported(c, log, kind)
    ELSE toJsonExported(c, log, kind)

exportMaster(c) ==
    IF ~ensureClient(c) THEN Throw(<<>>, <<"Missing Notion token">>)
    ELSE Call(<<>>, "exportMaster", "pages.retrieve", [id |-> "masterId"], <<>>)

rethrowPagePath(log, op) == Throw(log, RemoteError(op))

\* catch (e1) of exportMaster (src/index.js:149-151): whatever failed in the
\* page path, the id is retrieved as a database and e1 is dropped
catchPagePath(log, op) ==
    Call(log, "exportMaster", "databases.retrieve", [id |-> "masterId"], <<>>)

\* exportMaster goes on after the call it awaited
exportMasterNext(c, pc, loc, log, ok) ==
    IF pc[2] = "databases.retrieve"
    THEN IF ok THEN exported(c, log, "database")
         ELSE Throw(log, <<"ID is neither a Page nor a Database">>)
    ELSE IF ~ok
    THEN catchPagePath(log, pc[2])
    ELSE LET n == IF pc[2] = "pages.retrieve" THEN 1 ELSE loc.page + 1 IN
         IF n <= c.masterPages
         THEN Call(log, "getAllBlocks", "blocks.children.list",
                   [id |-> "masterId", page |-> n], [page |-> n])
         ELSE exported(c, log, "page")

fromMaster(c) ==
    IF ~assertIdLike(c.masterId) THEN Throw(<<>>, <<"looks invalid", "masterId">>)
    ELSE IF ~assertIdLike(c.targetId) THEN Throw(<<>>, <<"looks invalid", "targetId">>)
    ELSE exportMaster(c)

FromMasterRuns ==
    [cmd : {"from-master"}, masterId : IdLengths, targetId : IdLengths,
     token : BOOLEAN, mode : {"under_page", "into_database"},
     masterPages : ListPages]

toJson(c) ==
    IF ~assertIdLike(c.masterId) THEN Throw(<<>>, <<"looks invalid", "id">>)
    ELSE exportMaster(c)

ToJsonRuns ==
    [cmd : {"to-json"}, masterId : IdLengths, token : BOOLEAN,
     outFile : {"none", "writable", "unwritable"}, masterPages : ListPages]

\* ---- deploy: deployBlueprint (src/index.js:563-630)
Title == [type |-> "title", to |-> ""]

RelationTo(alias) == [type |-> "relation", to |-> alias]

DatabaseLists ==
    LET P == [alias |-> "tasks", props |-> {Title}]
        T == [alias |-> "tasks", props |-> {Title, RelationTo("calendar")}]
        C == [alias |-> "calendar", props |-> {Title}]
        N == [alias |-> "notes", props |-> {Title, RelationTo("ghost")}]
    IN  {<<>>, <<P>>, <<T, C>>, <<C, N>>, <<N, T, C>>}

\* the pages of a blueprint, each by the number of its children
PageLists == {<<>>, <<0>>, <<BatchSize + 1, 1>>}

\* install.seeds in the order of Object.entries
SeedLists ==
    {<<>>,
     <<[alias |-> "tasks", rows |-> 2]>>,
     <<[alias |-> "ghost", rows |-> 1], [alias |-> "tasks", rows |-> 1]>>,
     <<[alias |-> "calendar", rows |-> 1]>>}

Aliases(c) == {c.databases[d].alias : d \in DOMAIN c.databases}

buildDbProperties(schema, aliasToId) ==
    {p \in schema : p.type # "relation" \/ p.to \in aliasToId}

relationProps(db) == {p \in db.props : p.type = "relation"}

RECURSIVE seedRows(_, _)
\* the rows that createSeeds has created in the database of an alias
seedRows(seeds, alias) ==
    IF seeds = <<>> THEN 0
    ELSE (IF Head(seeds).alias = alias THEN Head(seeds).rows ELSE 0)
         + seedRows(Tail(seeds), alias)

linksWanted(c) ==
    /\ "tasks" \in Aliases(c)
    /\ c.optBaseUrl \/ c.docBaseUrl
    /\ c.appSecret

nextPhaseSeedsFirst(phase) ==
    CASE phase = "create" -> "patch"
      [] phase = "patch" -> "seeds"
      [] phase = "seeds" -> "pages"
      [] phase = "pages" -> "links"
      [] phase = "links" -> "info"

\* the order of the parts of deployBlueprint
nextPhase(phase) ==
    CASE phase = "create" -> "patch"
      [] phase = "patch" -> "pages"
      [] phase = "pages" -> "seeds"
      [] phase = "seeds" -> "links"
      [] phase = "links" -> "info"

At(phase, n, i) == [phase |-> phase, n |-> n, i |-> i]

RECURSIVE advance(_, _, _)
\* deployBlueprint runs from a position to the onward remote call or to its end
advance(c, loc, log) ==
    LET n == loc.n
        i == loc.i
        onward == At(nextPhase(loc.phase), 1, 0)
    IN
    CASE loc.phase = "create" ->
           IF n > Len(c.databases) THEN advance(c, onward, log)
           ELSE Call(log, "createRelationPlaceholders", "databases.create",
                     [phase |-> "create", alias |-> c.databases[n].alias,
                      props |-> buildDbProperties(c.databases[n].props \ relationProps(c.databases[n]), {})],
                     loc)
      [] loc.phase = "patch" ->
           IF n > Len(c.databases) THEN advance(c, onward, log)
           ELSE IF relationProps(c.databases[n]) = {} THEN advance(c, At("patch", n + 1, 0), log)
           ELSE Call(log, "createRelationPlaceholders", "databases.update",
                     [phase |-> "patch", alias |-> c.databases[n].alias,
                      props |-> buildDbProperties(c.databases[n].props, Aliases(c))],
                     loc)
      [] loc.phase = "pages" ->
           IF n > Len(c.pages) THEN advance(c, onward, log)
           ELSE IF i = 0
           THEN Call(log, "deployBlueprint", "pages.create",
                     [phase |-> "pages", page |-> n], loc)
           ELSE IF loopEnters(i - 1, c.pages[n])
           THEN Call(log, "deployBlueprint", "blocks.children.append",
                     [phase |-> "pages", page |-> n, from |-> i - 1], loc)
           ELSE advance(c, At("pages", n + 1, 0), log)
      [] loc.phase = "seeds" ->
           IF n > Len(c.seeds) THEN advance(c, onward, log)
           ELSE IF c.seeds[n].alias \notin Aliases(c) THEN advance(c, At("seeds", n + 1, 0), log)
           ELSE IF i = 0
           THEN Call(log, "getDatabaseTitlePropName", "databases.retrieve",
                     [phase |-> "seeds", alias |-> c.seeds[n].alias], loc)
           ELSE IF i <= c.seeds[n].rows
           THEN Call(log, "createSeeds", "pages.create",
                     [phase |-> "seeds", alias |-> c.seeds[n].alias, row |-> i], loc)
           ELSE advance(c, At("seeds", n + 1, 0), log)
      [] loc.phase = "links" ->
           IF ~linksWanted(c) THEN advance(c, onward, log)
           ELSE IF n = 1 /\ i = 0
           THEN Call(log, "deployBlueprint", "databases.query",
                     [phase |-> "links", alias |-> "tasks"], loc)
           ELSE IF n - 1 > seedRows(c.seeds, "tasks") THEN advance(c, onward, log)
           ELSE IF i = 0
           THEN Call(log, "setTaskUrlProperties", "pages.update",
                     [phase |-> "links", row |-> n - 1], loc)
           ELSE Call(log, "injectActionLinksOnTask", "blocks.children.append",
                     [phase |-> "links", row |-> n - 1], loc)
      [] loc.phase = "info" ->
           IF n = 1
           THEN Call(log, "deployBlueprint", "pages.create", [phase |-> "info"], loc)
           ELSE IF n = 2
           THEN Call(log, "deployBlueprint", "blocks.children.append", [phase |-> "info"], loc)
           ELSE Return(log, <<"info">>)

\* the position after the call awaited at loc
after(loc) ==
    CASE loc.phase \in {"create", "patch", "info"} -> At(loc.phase, loc.n + 1, 0)
      [] loc.phase = "pages" -> At("pages", loc.n, IF loc.i = 0 THEN 1 ELSE loc.i + BatchSize)
      [] loc.phase = "seeds" -> At("seeds", loc.n, loc.i + 1)
      [] loc.phase = "links" ->
           IF loc.n = 1 \/ loc.i = 1 THEN At("links", loc.n + 1, 0)
           ELSE At("links", loc.n, 1)

\* every remote call of deployBlueprint is made through withRetry around
\* ensureClient(), and one is always reached: without a token the first of
\* them fails before anything is sent
deployBlueprint(c) ==
    IF c.found = "no yaml" THEN Throw(<<>>, <<"YAML support not installed">>)
    ELSE IF c.found = "no file" THEN Throw(<<>>, <<"Blueprint file not found">>)
    ELSE IF ~ensureClient(c) THEN Throw(<<>>, <<"Missing Notion token">>)
    ELSE advance(c, At("create", 1, 0), <<>>)

deployBlueprintNext(c, pc, loc, log, ok) ==
    IF ~ok THEN Throw(log, RemoteError(pc[2]))
    ELSE advance(c, after(loc), log)

deploy(c) ==
    IF ~assertIdLike(c.targetId) THEN Throw(<<>>, <<"looks invalid", "targetId">>)
    ELSE deployBlueprint(c)

DeployRuns ==
    [cmd : {"deploy"}, targetId : {MinIdLength - 1, MinIdLength},
     found : {"ok", "no yaml", "no file"}, token : BOOLEAN,
     databases : DatabaseLists, pages : PageLists, seeds : SeedLists,
     optBaseUrl : BOOLEAN, docBaseUrl : BOOLEAN, appSecret : BOOLEAN]

\* the handler of a command up to its first await
handler(c) ==
    CASE c.cmd = "from-json" -> fromJson(c)
      [] c.cmd = "from-master" -> fromMaster(c)
      [] c.cmd = "to-json" -> toJson(c)
      [] c.cmd = "deploy" -> deploy(c)

\* the operation of a command goes on after the call it awaited
resume(c, pc, loc, log, ok) ==
    CASE pc[1] = "createFromJsonTemplate" -> createFromJsonTemplateNext(c, pc, loc, log, ok)
      [] pc[1] \in {"exportMaster", "getAllBlocks"} -> exportMasterNext(c, pc, loc, log, ok)
      [] c.cmd = "from-master" -> cloneFromMasterNext(c, pc, loc, log, ok)
      [] c.cmd = "deploy" -> deployBlueprintNext(c, pc, loc, log, ok)

\* try { ...; spinner.succeed(...) } catch (err) { spinner.fail(err.message); process.exitCode = 1 }
catchAndReport(out) ==
    IF out.kind = "pending" THEN <<>>
    ELSE IF out.kind = "threw"
    THEN [spinner |-> "fail", text |-> out.val, exitCode |-> 1]
    ELSE [spinner |-> IF out.kind = "printed" THEN "stop" ELSE "succeed",
          text |-> out.val, exitCode |-> 0]

Becomes(conf) ==
    /\ cliPc' = conf.pc
    /\ locals' = conf.loc
    /\ remoteLog' = conf.log
    /\ report' = catchAndReport(conf.out)
    /\ UNCHANGED cli

\* the call awaited has been answered
Answer(log, ok) ==
    [log EXCEPT ![Len(log)].answer = IF ok THEN "ok" ELSE "error"]

Awaiting == cliPc \notin {<<"idle">>, <<"start">>, <<"exit">>}

CliRun ==
    /\ cliPc = <<"start">>
    /\ Becomes(handler(cli))
    /\ UNCHANGED limVars
    /\ UNCHANGED retryVars
    /\ UNCHANGED cloneVars
    /\ UNCHANGED backVars
    /\ UNCHANGED napVars

RemoteSucceeds ==
    /\ Awaiting
    /\ Becomes(resume(cli, cliPc, locals, Answer(remoteLog, TRUE), TRUE))
    /\ UNCHANGED limVars
    /\ UNCHANGED retryVars
    /\ UNCHANGED cloneVars
    /\ UNCHANGED backVars
    /\ UNCHANGED napVars

RemoteFails ==
    /\ Awaiting
    /\ Becomes(resume(cli, cliPc, locals, Answer(remoteLog, FALSE), FALSE))
    /\ UNCHANGED limVars
    /\ UNCHANGED retryVars
    /\ UNCHANGED cloneVars
    /\ UNCHANGED backVars
    /\ UNCHANGED napVars

CliRuns == FromJsonRuns \cup FromMasterRuns \cup ToJsonRuns \cup DeployRuns

InitCli ==
    /\ LimiterIdle
    /\ NapIdle
    /\ RetryIdle
    /\ CloneIdle
    /\ BackIdle
    /\ cli \in CliRuns
    /\ cliPc = <<"start">>
    /\ locals = <<>>
    /\ remoteLog = <<>>
    /\ report = <<>>

NextCli ==
    \/ CliRun
    \/ RemoteSucceeds
    \/ RemoteFails

SpecCli == InitCli /\ [][NextCli]_vars

(***************************************************************************)
(* getAllBlocks (src/index.js:71-81): the children of a block are listed   *)
(* page by page, every page through its own withRetry.  The block has      *)
(* cli.total children, numbered in order; the cursor the workspace hands   *)
(* out is the number of children already listed (0 stands for none).       *)
(***************************************************************************)
Totals == {0, 1, PageSize, PageSize + 1, 2 * PageSize + 1}

listPage(total, cur, size) ==
    [results |-> [k \in 1..Min(size, total - cur) |-> cur + k],
     has_more |-> cur + size < total,
     next_cursor |-> IF cur + size < total THEN cur + size ELSE 0]

listRequest(cur) ==
    [op |-> "blocks.children.list", by |-> "getAllBlocks",
     arg |-> [start_cursor |-> cur, page_size |-> PageSize], answer |-> "none"]

attemptsCarried(previous) == previous

\* let attempt = 0 (line 53): every call of withRetry counts from zero
attemptsAtCall(previous) == 0

getAllBlocksCall ==
    /\ cliPc = <<"start">>
    /\ cli.cmd = "getAllBlocks"
    /\ cliPc' = <<"getAllBlocks", "blocks.children.list">>
    /\ locals' = [results |-> <<>>, cursor |-> 0]
    /\ remoteLog' = <<listRequest(0)>>
    /\ rpc' = "calling"
    /\ attempt' = attemptsAtCall(attempt)
    /\ wait' = BaseWait
    /\ invocations' = 1
    /\ UNCHANGED <<cli, report>>
    /\ UNCHANGED <<lastErr, result, waits, retryableFails, fatalFails, opFails, opValue>>
    /\ UNCHANGED limVars
    /\ UNCHANGED cloneVars
    /\ UNCHANGED backVars
    /\ UNCHANGED napVars

\* the workspace answers the request with a page (lines 76-79)
PageResolves ==
    /\ cli.cmd = "getAllBlocks"
    /\ rpc = "calling"
    /\ LET resp == listPage(cli.total, remoteLog[Len(remoteLog)].arg.start_cursor,
                            remoteLog[Len(remoteLog)].arg.page_size)
           results == locals.results \o resp.results
           cur == IF resp.has_more THEN resp.next_cursor ELSE 0
       IN IF cur # 0
          THEN /\ locals' = [results |-> results, cursor |-> cur]
               /\ remoteLog' = Append(Answer(remoteLog, TRUE), listRequest(cur))
               /\ attempt' = attemptsAtCall(attempt)
               /\ wait' = BaseWait
               /\ invocations' = 1
               /\ UNCHANGED <<rpc, cliPc, report>>
          ELSE /\ locals' = [results |-> results, cursor |-> cur]
               /\ remoteLog' = Answer(remoteLog, TRUE)
               /\ rpc' = "returned"
               /\ cliPc' = <<"exit">>
               /\ report' = [kind |-> "returned", val |-> results]
               /\ UNCHANGED <<attempt, wait, invocations>>
    /\ UNCHANGED cli
    /\ UNCHANGED <<lastErr, result, waits, retryableFails, fatalFails, opFails, opValue>>
    /\ UNCHANGED limVars
    /\ UNCHANGED cloneVars
    /\ UNCHANGED backVars
    /\ UNCHANGED napVars

\* the request fails with err: withRetry gives up or sleeps (lines 58-64)
PageRejects(err) ==
    /\ cli.cmd = "getAllBlocks"
    /\ rpc = "calling"
    /\ attempt' = attempt + 1
    /\ lastErr' = err
    /\ remoteLog' = Answer(remoteLog, FALSE)
    /\ IF giveUp(attempt + 1, statusOf(err))
       THEN /\ rpc' = "thrown"
            /\ cliPc' = <<"exit">>
            /\ report' = [kind |-> "threw", val |-> err]
       ELSE /\ rpc' = "sleeping"
            /\ UNCHANGED <<cliPc, report>>
    /\ UNCHANGED <<cli, locals>>
    /\ UNCHANGED <<wait, invocations, result, waits, retryableFails, fatalFails, opFails, opValue>>
    /\ UNCHANGED limVars
    /\ UNCHANGED cloneVars
    /\ UNCHANGED backVars
    /\ UNCHANGED napVars

\* the timer of withRetry fires and the same page is requested again
PageTimerFires ==
    /\ cli.cmd = "getAllBlocks"
    /\ rpc = "sleeping"
    /\ rpc' = "calling"
    /\ wait' = nextWait(wait)
    /\ invocations' = invocations + 1
    /\ remoteLog' = Append(remoteLog, listRequest(locals.cursor))
    /\ UNCHANGED <<cli, cliPc, locals, report>>
    /\ UNCHANGED <<attempt, lastErr, result, waits, retryableFails, fatalFails, opFails, opValue>>
    /\ UNCHANGED limVars
    /\ UNCHANGED cloneVars
    /\ UNCHANGED backVars
    /\ UNCHANGED napVars

InitPages ==
    /\ LimiterIdle
    /\ NapIdle
    /\ RetryIdle
    /\ CloneIdle
    /\ BackIdle
    /\ cli \in [cmd : {"getAllBlocks"}, total : Totals]
    /\ cliPc = <<"start">>
    /\ locals = <<>>
    /\ remoteLog = <<>>
    /\ report = <<>>

NextPages ==
    \/ getAllBlocksCall
    \/ PageResolves
    \/ \E err \in Errors(invocations) : PageRejects(err)
    \/ PageTimerFires

SpecPages == InitPages /\ [][NextPages]_vars

(***************************************************************************)
(* sanitizeBlocks (src/index.js:101-116) on objects that have an identity. *)
(* A heap maps the address of an object or array to its slots; a value is  *)
(* a primitive or the address of an object.  The input is what the         *)
(* workspace returns for a list of blocks: parsed JSON, where rich_text,   *)
(* when present, is an array of objects.                                   *)
(***************************************************************************)
Str(s) == [t |-> "str", s |-> s, n |-> 0]
Bool(b) == [t |-> "bool", s |-> IF b THEN "true" ELSE "false", n |-> 0]
Undef == [t |-> "undef", s |-> "", n |-> 0]
Ref(a) == [t |-> "ref", s |-> "", n |-> a]
Obj(slots) == [array |-> FALSE, slots |-> slots]
Arr(slots) == [array |-> TRUE, slots |-> slots]

Truthy(v) == v.t = "ref" \/ (v.t = "str" /\ v.s # "") \/ v = Bool(TRUE)

\* v[key]
get(heap, v, key) ==
    IF v.t = "ref" /\ key \in DOMAIN heap[v.n].slots
    THEN heap[v.n].slots[key] ELSE Undef

\* the property name a value is turned into
keyOf(v) == IF v.t = "undef" THEN "undefined" ELSE v.s

fresh(heap) ==
    IF DOMAIN heap = {} THEN 1
    ELSE 1 + CHOOSE a \in DOMAIN heap : \A b \in DOMAIN heap : b <= a

RefsOf(heap, a) ==
    {heap[a].slots[k].n : k \in {k \in DOMAIN heap[a].slots : heap[a].slots[k].t = "ref"}}

RECURSIVE Closure(_, _)
Closure(heap, S) ==
    LET T == S \cup UNION {RefsOf(heap, a) : a \in S}
    IN  IF T = S THEN S ELSE Closure(heap, T)

\* the objects a value is made of
Reach(heap, v) == IF v.t = "ref" THEN Closure(heap, {v.n}) ELSE {}

RECURSIVE Struct(_, _)
\* a value without the identity of its objects
Struct(heap, v) ==
    IF v.t # "ref" THEN v
    ELSE [array |-> heap[v.n].array,
          slots |-> [k \in DOMAIN heap[v.n].slots |-> Struct(heap, heap[v.n].slots[k])]]

noCopy(heap, v) == [heap |-> heap, val |-> v]

\* JSON.parse(JSON.stringify(v)) (line 106): every object of v is built anew;
\* a property whose value is undefined is left out of an object
jsonCopy(heap, v) ==
    IF v.t # "ref" THEN [heap |-> heap, val |-> v]
    ELSE LET off == fresh(heap) - 1
             moved(x) == IF x.t = "ref" THEN Ref(x.n + off) ELSE x
             copy(a) ==
                 [array |-> heap[a].array,
                  slots |-> [k \in {k \in DOMAIN heap[a].slots :
                                       heap[a].array \/ heap[a].slots[k].t # "undef"}
                             |-> moved(heap[a].slots[k])]]
         IN  [heap |-> heap @@ [a \in {b + off : b \in Reach(heap, v)} |-> copy(a - off)],
              val |-> Ref(v.n + off)]

\* the index an array key stands for
indexOf(k) ==
    CASE k = "0" -> 0
      [] k = "1" -> 1
      [] k = "2" -> 2

\* rich_text.map(rt => ({ ...rt })) (line 108): a new array of new objects,
\* each with the properties of its element
spreadEach(heap, arr) ==
    LET off == fresh(heap)
        keys == DOMAIN heap[arr.n].slots
        at(k) == off + 1 + indexOf(k)
        el(k) == heap[arr.n].slots[k]
    IN  [heap |-> heap
                  @@ (off :> Arr([k \in keys |-> Ref(at(k))]))
                  @@ [a \in {at(k) : k \in keys} |->
                         LET k == CHOOSE k \in keys : at(k) = a
                         IN  Obj(IF el(k).t = "ref" THEN heap[el(k).n].slots ELSE <<>>)],
         val |-> Ref(off)]

\* the callback of blocks.map (lines 103-114); threw: a TypeError left it
sanitizeBlock(heap, b) ==
    LET type == get(heap, b, "type")
        key == keyOf(type)
        base == fresh(heap)
        h1 == heap @@ (base :> Obj("type" :> type))
        c == jsonCopy(h1, get(heap, b, key))
        h2 == IF Truthy(get(heap, b, key))
              THEN [c.heap EXCEPT ![base].slots = (key :> c.val) @@ @]
              ELSE h1
        rt == get(h2, get(h2, Ref(base), key), "rich_text")
        isArray == rt.t = "ref" /\ h2[rt.n].array
        m == spreadEach(h2, rt)
        payload == get(h2, Ref(base), key).n
        h3 == IF Truthy(rt) /\ isArray
              THEN [m.heap EXCEPT ![payload].slots = ("rich_text" :> m.val) @@ @]
              ELSE h2
        h4 == IF Truthy(get(heap, b, "has_children"))
              THEN [h3 EXCEPT ![base].slots = ("has_children" :> Bool(TRUE)) @@ @]
              ELSE h3
    IN  [heap |-> h4, val |-> Ref(base), threw |-> Truthy(rt) /\ ~isArray]

\* ---- blocks as the workspace lists them, the root object first
BlockShapes ==
    {<<Obj([object |-> Str("block"), id |-> Str("b1"), type |-> Str("paragraph"),
           has_children |-> Bool(FALSE), paragraph |-> Ref(2)]),
       Obj([rich_text |-> Ref(3), color |-> Str("default")]),
       Arr(("0" :> Ref(4)) @@ ("1" :> Ref(6))),
       Obj([plain_text |-> Str("hi"), annotations |-> Ref(5)]),
       Obj([bold |-> Bool(TRUE)]),
       Obj([plain_text |-> Str("there")])>>,
     <<Obj([id |-> Str("b2"), type |-> Str("toggle"), has_children |-> Bool(TRUE),
           toggle |-> Ref(2)]),
       Obj([rich_text |-> Ref(3)]),
       Arr(<<>>)>>,
     <<Obj([id |-> Str("b3"), type |-> Str("mystery"), has_children |-> Bool(FALSE)])>>,
     <<Obj([id |-> Str("b4"), type |-> Str("widget"), has_children |-> Bool(TRUE),
           widget |-> Ref(2)]),
       Obj([settings |-> Ref(3)]),
       Obj([mode |-> Str("x")])>>,
     <<Obj([id |-> Str("b5"), has_children |-> Bool(TRUE)])>>,
     <<Obj([id |-> Str("b6"), type |-> Str("divider"), divider |-> Str("")])>>}

MaxBlocks == 2

\* the objects of a shape placed behind the objects of a heap
Place(heap, shape) ==
    LET off == fresh(heap) - 1
        moved(x) == IF x.t = "ref" THEN Ref(x.n + off) ELSE x
    IN  heap @@ [a \in {i + off : i \in DOMAIN shape} |->
                    [array |-> shape[a - off].array,
                     slots |-> [k \in DOMAIN shape[a - off].slots |->
                                   moved(shape[a - off].slots[k])]]]

RECURSIVE Listed(_)
\* the heap and the array of the blocks of a list of shapes
Listed(shapes) ==
    IF shapes = <<>> THEN [heap |-> <<>>, blocks |-> <<>>]
    ELSE LET rest == Listed(SubSeq(shapes, 1, Len(shapes) - 1))
         IN  [heap |-> Place(rest.heap, shapes[Len(shapes)]),
              blocks |-> Append(rest.blocks, Ref(fresh(rest.heap)))]

SanitizeRuns ==
    {[cmd |-> "sanitizeBlocks", heap |-> Listed(s).heap, blocks |-> Listed(s).blocks] :
        s \in UNION {[1..n -> BlockShapes] : n \in 0..MaxBlocks}}

sanitizeCall ==
    /\ cliPc = <<"start">>
    /\ cli.cmd = "sanitizeBlocks"
    /\ cliPc' = <<"sanitizeBlocks", "map">>
    /\ locals' = [heap |-> cli.heap, mapped |-> <<>>]
    /\ UNCHANGED <<cli, remoteLog, report>>
    /\ UNCHANGED limVars
    /\ UNCHANGED retryVars
    /\ UNCHANGED cloneVars
    /\ UNCHANGED backVars
    /\ UNCHANGED napVars

\* the callback of map is applied to the next block
sanitizeMap ==
    /\ cliPc = <<"sanitizeBlocks", "map">>
    /\ Len(locals.mapped) < Len(cli.blocks)
    /\ LET r == sanitizeBlock(locals.heap, cli.blocks[Len(locals.mapped) + 1])
       IN IF r.threw
          THEN /\ cliPc' = <<"exit">>
               /\ report' = [kind |-> "threw", val |-> <<"TypeError">>]
               /\ UNCHANGED locals
          ELSE /\ locals' = [heap |-> r.heap, mapped |-> Append(locals.mapped, r.val)]
               /\ UNCHANGED <<cliPc, report>>
    /\ UNCHANGED <<cli, remoteLog>>
    /\ UNCHANGED limVars
    /\ UNCHANGED retryVars
    /\ UNCHANGED cloneVars
    /\ UNCHANGED backVars
    /\ UNCHANGED napVars

\* .filter(Boolean) (line 115) and the return
sanitizeReturn ==
    /\ cliPc = <<"sanitizeBlocks", "map">>
    /\ Len(locals.mapped) = Len(cli.blocks)
    /\ cliPc' = <<"exit">>
    /\ report' = [kind |-> "returned",
                  val |-> SelectSeq(locals.mapped, Truthy)]
    /\ UNCHANGED <<cli, locals, remoteLog>>
    /\ UNCHANGED limVars
    /\ UNCHANGED retryVars
    /\ UNCHANGED cloneVars
    /\ UNCHANGED backVars
    /\ UNCHANGED napVars

InitSanitize ==
    /\ LimiterIdle
    /\ NapIdle
    /\ RetryIdle
    /\ CloneIdle
    /\ BackIdle
    /\ cli \in SanitizeRuns
    /\ cliPc = <<"start">>
    /\ locals = <<>>
    /\ remoteLog = <<>>
    /\ report = <<>>

NextSanitize ==
    \/ sanitizeCall
    \/ sanitizeMap
    \/ sanitizeReturn

SpecSanitize == InitSanitize /\ [][NextSanitize]_vars

(***************************************************************************)
(* Properties of the limiter.                                              *)
(***************************************************************************)
Started(t) == t \in Range(startOrder)

IsPrefix(s, t) == Len(s) <= Len(t) /\ SubSeq(t, 1, Len(s)) = s

\* C3: the active count stays within 0..concurrency and equals the number of
\* tasks that were started and whose promise has not settled yet.
C3_ActiveCount ==
    /\ active \in 0..concurrency
    /\ active = Cardinality({t \in DOMAIN tstate :
                               Started(t) /\ fnResult[t] = Pending})

\* The ceiling is reached while a task waits, after another task has settled.
C3_Witness ==
    /\ active = concurrency
    /\ queue # <<>>
    /\ \E t \in DOMAIN tstate : tstate[t] = "settled"

NoLostWakeup ==
    (queue # <<>> /\ active < concurrency) => immediates > 0

\* C4: under fair scheduling every submitted task is eventually started and
\* the promise of its submission eventually settles; the limiter never rests
\* with a queued item, a free slot and no scheduled call of next.
C4_AllSettle ==
    /\ []NoLostWakeup
    /\ \A t \in 1..MaxTasks :
         (t \in DOMAIN tstate /\ tstate[t] = "queued")
             ~> (Started(t) /\ outer[t] # Pending)

\* More tasks than slots were submitted and all of them have settled.
C4_Witness ==
    /\ Len(submitOrder) > concurrency
    /\ \A t \in DOMAIN tstate : outer[t] # Pending

\* C5: tasks are started in submission order: the start order is a prefix of
\* the submission order.
C5_Fifo == IsPrefix(startOrder, submitOrder)

\* With one slot, two tasks were started in turn while a third still waits.
C5_Witness ==
    /\ concurrency = 1
    /\ Len(startOrder) >= 2
    /\ queue # <<>>

\* C6: the submission's promise settles as the task's promise does (same
\* value, same error), not before the task was started, and once settled it
\* never changes.
C6_Relay ==
    /\ [](\A t \in DOMAIN tstate :
            /\ outer[t] # Pending => (Started(t) /\ outer[t] = fnResult[t])
            /\ fnResult[t] = Pending => outer[t] = Pending)
    /\ [][\A t \in DOMAIN tstate :
            outer[t] # Pending => outer'[t] = outer[t]]_vars

\* One submission resolved with a value and another rejected with an error.
C6_Witness ==
    \E t, u \in DOMAIN tstate :
        /\ outer[t] = Resolved("v2")
        /\ outer[u] = Rejected("e2")

\* C7: a failing task frees its slot and next() runs: the head of the queue,
\* if any, is started in the same turn, and under fair scheduling every task
\* queued after a failure is started.
C7_ReleaseOnFailure ==
    /\ [][\A t \in DOMAIN tstate :
            (fnResult[t] = Pending /\ fnResult'[t].st = "rejected") =>
                IF queue = <<>>
                THEN active' = active - 1 /\ startOrder' = startOrder
                ELSE /\ active' = active
                     /\ startOrder' = Append(startOrder, Head(queue))
                     /\ queue' = Tail(queue)]_vars
    /\ \A t \in 1..MaxTasks :
         (/\ t \in DOMAIN tstate
          /\ tstate[t] = "queued"
          /\ \E u \in DOMAIN tstate : outer[u].st = "rejected") ~> Started(t)

\* With one slot, a task was started after the task before it had failed.
C7_Witness ==
    /\ concurrency = 1
    /\ \E i \in 1..Len(startOrder) - 1 :
         /\ outer[startOrder[i]].st = "rejected"
         /\ tstate[startOrder[i + 1]] = "running"

(***************************************************************************)
(* Properties of withRetry.                                                *)
(***************************************************************************)
RetryEnded == rpc \in {"returned", "thrown"}

\* C8 as stated: for an operation that fails K times with a retryable status
\* and then succeeds, withRetry returns the success result and the operation
\* has been invoked exactly K+1 times, whatever K.
C8_AnyK ==
    (RetryEnded /\ fatalFails = 0) =>
        (result = Resolved(opValue) /\ invocations = opFails + 1)

\* C8, amended: the same for K below the ceiling of 5 attempts (K <= 4); until
\* then no result is returned.
C8_RetryThenSuccess ==
    (fatalFails = 0 /\ opFails < MaxAttempts) =>
        /\ invocations <= opFails + 1
        /\ ~RetryEnded => result = Pending
        /\ RetryEnded =>
             /\ rpc = "returned"
             /\ result = Resolved(opValue)
             /\ invocations = opFails + 1
             /\ retryableFails = opFails

\* Four retryable failures, then the fifth call succeeds and is returned.
C8_Witness ==
    /\ rpc = "returned"
    /\ opFails = 4
    /\ retryableFails = 4
    /\ result = Resolved(opValue)

\* C9: a failure with a 4xx status other than 429 makes withRetry reject with
\* that very error at once: the operation is not invoked again and no backoff
\* wait follows (one invocation and no wait when the first call fails so).
C9_FatalImmediate ==
    fatalFails > 0 =>
        /\ rpc = "thrown"
        /\ FatalError(lastErr)
        /\ result = Rejected(lastErr)
        /\ fatalFails = 1
        /\ invocations = retryableFails + 1
        /\ Len(waits) = retryableFails
        /\ lastErr.at = invocations

\* The first call fails with status 404.
C9_Witness ==
    /\ rpc = "thrown"
    /\ invocations = 1
    /\ waits = <<>>
    /\ result = Rejected([status |-> 404, statusCode |-> NoStatus, at |-> 1])

\* C10: after a failure withRetry waits for another attempt exactly when the
\* error is retryable (5xx, 429 or no status) and the ceiling is not reached;
\* a 4xx error other than 429 is fatal; a wait is always followed by another
\* invocation of the operation.
C10_Classification ==
    /\ [](rpc \in {"sleeping", "thrown"} =>
            /\ (rpc = "sleeping") <=>
                   (RetryableError(lastErr) /\ attempt < MaxAttempts)
            /\ FatalError(lastErr) => rpc = "thrown"
            /\ rpc = "thrown" => result = Rejected(lastErr))
    /\ \A i \in 1..MaxAttempts :
         (rpc = "sleeping" /\ invocations = i)
             ~> (rpc = "calling" /\ invocations = i + 1)

\* The fourth failure carries 429 in statusCode and is waited on.
C10_Witness ==
    /\ rpc = "sleeping"
    /\ attempt = 4
    /\ lastErr.status = NoStatus
    /\ lastErr.statusCode = 429

\* C11: the delays waited start at 500 ms, each is the double of the one
\* before, none exceeds 5000 ms, and an operation that fails with a retryable
\* error every time is invoked exactly 5 times, with the waits 500, 1000, 2000
\* and 4000 ms in between.
C11_Backoff ==
    /\ \A i \in DOMAIN waits :
         /\ waits[i] <= MaxWait
         /\ i = 1 => waits[i] = 500
         /\ i > 1 => (waits[i] = 2 * waits[i - 1] /\ waits[i] >= waits[i - 1])
    /\ rpc # "idle" => (BaseWait <= wait /\ wait <= MaxWait)
    /\ rpc = "sleeping" => wait = waits[Len(waits)]
    /\ (rpc = "thrown" /\ fatalFails = 0) =>
           (invocations = 5 /\ waits = <<500, 1000, 2000, 4000>>)

\* The operation failed five times with retryable errors and withRetry gave up.
C11_Witness ==
    /\ rpc = "thrown"
    /\ retryableFails = 5
    /\ opFails > 5
    /\ Len(waits) = 4

\* C12: the operation is never invoked more than 5 times; when the ceiling
\* is reached on a retryable failure withRetry rejects with the error of the
\* fifth call itself, and no wait follows that call.
C12_Exhaustion ==
    /\ invocations <= MaxAttempts
    /\ attempt <= MaxAttempts
    /\ (rpc = "thrown" /\ RetryableError(lastErr)) =>
           /\ attempt = MaxAttempts
           /\ invocations = MaxAttempts
           /\ result = Rejected(lastErr)
           /\ lastErr.at = MaxAttempts
           /\ Len(waits) = MaxAttempts - 1

\* The fifth call failed with status 503 and that error is the rejection.
C12_Witness ==
    /\ rpc = "thrown"
    /\ result = Rejected([status |-> 503, statusCode |-> NoStatus, at |-> 5])

(***************************************************************************)
(* Properties of the replication.                                          *)
(***************************************************************************)
\* The replication has come to rest: it was called, no remote call is in
\* flight, no promise reaction is due and no callback is scheduled.
AtRest ==
    /\ cpc[0] # "none"
    /\ \A p \in Nodes : cpc[p] \notin {"listing", "appending"}
    /\ ~ReactionDue
    /\ immediates = 0

\* Every slot of the limiter is held by a task that awaits a child task which
\* is still in the limiter's queue.
SlotDeadlock ==
    /\ active = concurrency
    /\ \A t \in DOMAIN tstate :
         tstate[t] = "running" =>
             /\ cpc[t] = "awaiting"
             /\ \E idx \in 1..Len(created[t]) : tstate[TaskOf(t, idx)] = "queued"

\* C1: with every remote call succeeding the replication of a finite tree
\* completes: no state is reached in which all slots of the limiter are held
\* by tasks awaiting child tasks that wait in its queue, and the replication
\* never rests before the root call has returned.
C1_NoSlotDeadlock ==
    /\ ~SlotDeadlock
    /\ AtRest => cpc[0] = "done"

RECURSIVE PathOf(_)
\* The place of source node n in the tree: the positions from the root down.
PathOf(n) ==
    IF n = 0 THEN <<>>
    ELSE LET p == CHOOSE q \in Nodes : n \in Range(kids[q])
             i == CHOOSE j \in DOMAIN kids[p] : kids[p][j] = n
         IN Append(PathOf(p), i)

\* The destination holds one block per source block below the root, at the
\* same place (same parent, same position among its siblings), with the type
\* and the payload of the source block and none of its server-managed fields.
Isomorphic ==
    /\ DOMAIN dest = {PathOf(n) : n \in Nodes \ {0}}
    /\ \A n \in Nodes \ {0} :
         LET d == dest[PathOf(n)]
             b == Block(n)
         IN /\ d.type = b.type
            /\ (b.type \in DOMAIN b) <=> (b.type \in DOMAIN d)
            /\ b.type \in DOMAIN b => d[b.type] = b[b.type]
            /\ DOMAIN d \subseteq {"type", b.type, "has_children"}

\* C2: with every remote call succeeding, the replication of a tree leaves a
\* destination tree isomorphic to the source (same shape, same sibling order,
\* same type and payload per node).
C2_Isomorphic == AtRest => Isomorphic

\* C13 as stated: once the promise of the root call has completed, by
\* resolving or by rejecting, no task of the subtree is queued or running.
C13_CompletesAfterSubtree ==
    cpc[0] \in {"done", "failed"} =>
        \A t \in DOMAIN tstate : tstate[t] \notin {"queued", "running"}

\* C13, amended: the promise of the root call resolves only after every task
\* of the subtree has been submitted and has settled successfully, the
\* calls made by those tasks included.
C13_ResolvesAfterSubtree ==
    cpc[0] = "done" =>
        \A t \in DOMAIN tstate :
            /\ tstate[t] = "settled"
            /\ fnResult[t].st = "resolved"
            /\ outer[t].st = "resolved"
            /\ TaskRecurses(t) => cpc[t] = "done"

\* The root call has resolved over a tree with tasks at two levels at least.
C13_Witness ==
    /\ cpc[0] = "done"
    /\ Cardinality(DOMAIN tstate) >= 3
    /\ \E t \in DOMAIN tstate : TaskRecurses(t)

\* C14 as stated: every unrecoverable error of a remote call is the error the
\* promise of the root call is rejected with.
C14_AnyErrorRejects ==
    \A i \in DOMAIN failLog :
        ~ReactionDue => (cpc[0] = "failed" /\ callErr[0] = failLog[i])

\* C14, amended: the root call never resolves once a remote call has failed for
\* good; it is rejected, as soon as the reactions have run, with the first
\* such error, and it is rejected for no other reason.
C14_FirstErrorRejects ==
    /\ failLog # <<>> => cpc[0] # "done"
    /\ (failLog # <<>> /\ ~ReactionDue) =>
           (cpc[0] = "failed" /\ callErr[0] = failLog[1])
    /\ cpc[0] = "failed" => (failLog # <<>> /\ callErr[0] = failLog[1])

\* The append of a call two levels below the root has failed after five
\* attempts, and the root call is rejected with that error.
C14_Witness ==
    /\ failLog # <<>>
    /\ failLog[1].op = "append"
    /\ failLog[1].kind = "exhausted"
    /\ Len(target[failLog[1].call]) >= 2
    /\ cpc[0] = "failed"
    /\ callErr[0] = failLog[1]

\* The concatenation of the sequences of ss, in order.
RECURSIVE Concat(_)
Concat(ss) == IF ss = <<>> THEN <<>> ELSE Head(ss) \o Concat(Tail(ss))

\* The number of appends of call p that have not been answered yet.
InFlight(p) ==
    Len(sent[p]) - Cardinality({k \in DOMAIN sent[p] : k * BatchSize <= chunkAt[p]})

\* C15: the n children of a level are appended in ceil(n/50) batches of at most
\* 50 blocks, all but the last of 50, whose concatenation is the children in
\* source order and which the destination stores in that order; a batch is
\* sent only after the answer to the one before, so that at most one append
\* of a call is in flight.
C15_Batches ==
    \A p \in Nodes :
        LET san == sanitizeBlocks(blocks[p]) IN
        /\ \A k \in DOMAIN sent[p] :
             /\ Len(sent[p][k]) >= 1
             /\ Len(sent[p][k]) <= BatchSize
             /\ k < Len(sent[p]) => Len(sent[p][k]) = BatchSize
        /\ IsPrefix(Concat(sent[p]), san)
        /\ InFlight(p) = IF cpc[p] = "appending" THEN 1 ELSE 0
        /\ [i \in DOMAIN created[p] |-> dest[created[p][i]]]
               = SubSeq(san, 1, Len(created[p]))
        /\ created[p] = [i \in DOMAIN created[p] |-> Append(target[p], i)]
        /\ cpc[p] \in {"awaiting", "done"} =>
             /\ Concat(sent[p]) = [i \in 1..Len(kids[p]) |-> sanitizeOne(Block(kids[p][i]))]
             /\ Len(sent[p]) = (Len(kids[p]) + BatchSize - 1) \div BatchSize
             /\ Len(created[p]) = Len(kids[p])

\* Sixty children have been appended as a batch of 50 and a batch of 10.
C15_Witness ==
    /\ Len(kids[0]) = 60
    /\ cpc[0] = "done"
    /\ Len(sent[0]) = 2
    /\ Len(sent[0][1]) = 50
    /\ Len(sent[0][2]) = 10

\* C16: a call on a node without children sends no batch and creates nothing;
\* once its listing is answered it has only its return left to do, and a root
\* without children leaves the destination and the limiter untouched.
C16_EmptyNode ==
    /\ \A p \in Nodes :
         kids[p] = <<>> =>
             /\ cpc[p] \in {"none", "listing", "awaiting", "done"}
             /\ sent[p] = <<>>
             /\ created[p] = <<>>
             /\ ChildIds(target[p]) = {}
             /\ cpc[p] = "awaiting" => (AllResolved(p) /\ ReactionDue)
    /\ kids[0] = <<>> =>
             /\ dest = <<>>
             /\ submitOrder = <<>>
             /\ queue = <<>>
             /\ immediates = 0
             /\ active = 0

\* The call on a root without children has returned.
C16_Witness ==
    /\ kids[0] = <<>>
    /\ blocks[0] = <<>>
    /\ cpc[0] = "done"

\* The step submits task t.
Submits(t) == tstate[t] = "new" /\ tstate'[t] # "new"

\* The caller's next task: the one Submit accepts.
NextToSubmit(t) ==
    /\ tstate[t] = "new"
    /\ \A u \in DOMAIN tstate : u < t => tstate[u] # "new"

\* C17: a submission only pushes the task at the end of the queue and
\* schedules one call of next: the task is queued, not running, its promise is
\* pending, and the active count and the started tasks are as before; and the
\* submission is accepted whatever the active count and the queue are.
C17_SubmitOnlyEnqueues ==
    /\ [](\A t \in DOMAIN tstate : NextToSubmit(t) => ENABLED Submit(t))
    /\ [][\A t \in DOMAIN tstate :
            Submits(t) =>
                /\ tstate'[t] = "queued"
                /\ queue' = Append(queue, t)
                /\ immediates' = immediates + 1
                /\ outer'[t] = Pending
                /\ fnResult'[t] = Pending
                /\ active' = active
                /\ startOrder' = startOrder
                /\ \A u \in DOMAIN tstate : u # t => tstate'[u] = tstate[u]]_vars

\* Two tasks wait in the queue, with pending promises, while the ceiling is
\* reached and calls of next are still scheduled.
C17_Witness ==
    /\ active = concurrency
    /\ Len(queue) >= 2
    /\ immediates >= 1
    /\ \A i \in DOMAIN queue : tstate[queue[i]] = "queued" /\ outer[queue[i]] = Pending

(***************************************************************************)
(* Properties of the action links and of the backend.                      *)
(***************************************************************************)
\* The request r carries a link written by the deployment.
IsRowLink(r) ==
    \E a \in ActionNames : \E cal \in Calendars :
        /\ reqs[r].path = a
        /\ reqs[r].query = RowLink(a, cal, toString(Minute)).query

\* C18: a link that buildActionUrl signed with the secret of the backend is
\* not turned away by the backend's signature check.
C18_LinkAccepted ==
    \A r \in DOMAIN reqs :
        (/\ reqs[r].pc # "new"
         /\ IsRowLink(r)
         /\ env = [APP_SECRET |-> Secret, NOTION_TOKEN |-> Token])
        => reqs[r].status # 401

\* The payload the backend's documentation names for the query q.
PayloadOf(q) ==
    join(<<Get(q, "taskId"), Get(q, "action"), Get(q, "ts"), Get(q, "nonce"),
           Or(Get(q, "tasksDbId"), <<>>), Or(Get(q, "calendarDbId"), <<>>)>>, <<"|">>)

\* The query q lacks its signature or one of the four parameters.
Incomplete(q) ==
    \E k \in {"sig", "action", "taskId", "ts", "nonce"} : Falsy(Get(q, k))

\* The workspace has not been called for request r, and nothing in it has
\* changed.
Untouched(r) ==
    /\ \A i \in DOMAIN notionLog : notionLog[i].req # r
    /\ page \in Pages
    /\ calendar = <<>>

\* C19: a request that was received without APP_SECRET or NOTION_TOKEN in the
\* environment is answered with 500; otherwise a request whose query is
\* incomplete, or whose sig is not the digest of its parameters under
\* APP_SECRET, is answered with 401; in both cases the workspace is neither
\* read nor written.
C19_Gate ==
    \A r \in DOMAIN reqs :
        reqs[r].pc # "new" =>
            LET q == reqs[r].query IN
            /\ (Falsy(env.APP_SECRET) \/ Falsy(env.NOTION_TOKEN)) =>
                   (reqs[r].pc = "answered" /\ reqs[r].status = 500 /\ Untouched(r))
            /\ (/\ ~Falsy(env.APP_SECRET)
                /\ ~Falsy(env.NOTION_TOKEN)
                /\ (Incomplete(q) \/ Get(q, "sig") # hmacSign(env.APP_SECRET, PayloadOf(q))))
               => (reqs[r].pc = "answered" /\ reqs[r].status = 401 /\ Untouched(r))

\* A complete request signed under another key has been answered with 401.
C19_Witness ==
    /\ reqs[1].status = 401
    /\ ~Incomplete(reqs[1].query)
    /\ Get(reqs[1].query, "sig") = hmacSign(OtherSecret, PayloadOf(reqs[1].query))
    /\ notionLog = <<>>

\* The request r is the last one that arrived, and its handler has finished.
LastFinished(r) ==
    /\ reqs[r].pc = "answered"
    /\ \A u \in DOMAIN reqs : u > r => reqs[u].pc = "new"

\* The request r went through the gate and found a page with the tracked
\* properties.
AcceptedOnTracked(r, action) ==
    /\ reqs[r].path = action
    /\ reqs[r].status \notin {401, 0}
    /\ DOMAIN reqs[r].task = DOMAIN PageFull
    /\ reqs[r].task["Status"].type = "status"

\* The whole minutes of the interval from the instant a to the instant b.
MinutesBetween(a, b) == MathRound(b - a, Minute)

\* C20: after an accepted start on a page with the tracked properties the
\* page shows Status In Progress, a running timer and Last Started At at the
\* instant of the start; after an accepted pause the timer is stopped, Last
\* Started At is empty, and the total is the total the pause found plus the
\* minutes since the Last Started At it found (the total it found, if Last
\* Started At was empty).
C20_StartPause ==
    \A r \in DOMAIN reqs :
        /\ (LastFinished(r) /\ AcceptedOnTracked(r, StartS)) =>
               /\ page["Status"].name = "In Progress"
               /\ page["Timer Running"].checkbox = TRUE
               /\ page["Last Started At"].date = <<reqs[r].nowIso>>
        /\ (LastFinished(r) /\ AcceptedOnTracked(r, PauseS)) =>
               /\ page["Timer Running"].checkbox = FALSE
               /\ page["Last Started At"].date = <<>>
               /\ page["Total Tracked (min)"].number =
                      reqs[r].task["Total Tracked (min)"].number
                      + (IF reqs[r].task["Last Started At"].date = <<>> THEN 0
                         ELSE MinutesBetween(reqs[r].task["Last Started At"].date[1],
                                             reqs[r].nowIso))

\* The positions in notionLog of the calls of kind op made for request r.
CallsOf(r, op) ==
    {i \in DOMAIN notionLog : notionLog[i].req = r /\ notionLog[i].op = op}

\* C21: after an accepted stop on a page with the tracked properties the page
\* shows Status Done, a stopped timer, no Last Started At and the accumulated
\* total; with a calendarDbId one Calendar entry related to the task exists,
\* without one none; and pages.create is called only after pages.update.
C21_Stop ==
    /\ \A r \in DOMAIN reqs :
         (LastFinished(r) /\ AcceptedOnTracked(r, StopS)) =>
             /\ page["Status"].name = "Done"
             /\ page["Timer Running"].checkbox = FALSE
             /\ page["Last Started At"].date = <<>>
             /\ page["Total Tracked (min)"].number = reqs[r].newTotal
             /\ IF Falsy(Get(reqs[r].query, "calendarDbId"))
                THEN calendar = <<>> /\ CallsOf(r, "pages.create") = {}
                ELSE /\ Len(calendar) = 1
                     /\ calendar[1].Task = TaskId
                     /\ calendar[1].parent = Get(reqs[r].query, "calendarDbId")
                     /\ Cardinality(CallsOf(r, "pages.create")) = 1
    /\ \A r \in DOMAIN reqs :
         \A i \in CallsOf(r, "pages.create") :
             \E j \in CallsOf(r, "pages.update") : j < i

\* C22: the webhook route answers 200 only to a POST whose secret parameter is
\* APP_SECRET; a method other than POST is answered with 405, a POST without
\* APP_SECRET in the environment with 500, a POST with a missing or different
\* secret with 401, and in none of these cases has the body been read.
C22_Webhook ==
    \A r \in DOMAIN reqs :
        reqs[r].pc # "new" =>
            LET m == reqs[r].method
                s == env.APP_SECRET
                p == reqs[r].provided IN
            /\ reqs[r].status = 200 => (m = "POST" /\ ~Falsy(s) /\ p = s)
            /\ reqs[r].bodyRead => (m = "POST" /\ ~Falsy(s) /\ p = s)
            /\ m # "POST" => (reqs[r].status = 405 /\ reqs[r].pc = "answered")
            /\ (m = "POST" /\ Falsy(s)) =>
                   (reqs[r].status = 500 /\ ~reqs[r].bodyRead)
            /\ (m = "POST" /\ ~Falsy(s) /\ (Falsy(p) \/ p # s)) =>
                   (reqs[r].status = 401 /\ ~reqs[r].bodyRead)

\* A POST with the right secret and a JSON body has been answered with 200.
C22_Witness ==
    /\ reqs[1].status = 200
    /\ reqs[1].bodyRead
    /\ reqs[1].received
    /\ reqs[1].body.json

(***************************************************************************)
(* Properties of the command line operations.                              *)
(***************************************************************************)
TemplateRead == cli.cmd = "from-json" /\ assertIdLike(cli.targetId) /\ cli.fileExists /\ cli.parses

\* C23: createFromJsonTemplate, given a template of kind database and a
\* parentType other than page, fails with an error and issues no remote
\* call; given a template whose kind is neither page nor database it fails
\* and issues no remote call, and the error of a configured client is
\* 'Unknown template kind'.
C23_TemplateErrors ==
    (TemplateRead /\ cliPc # <<"start">>) =>
        /\ (cli.kind = "database" /\ cli.parentType # "page") =>
               /\ cliPc = <<"exit">>
               /\ report.spinner = "fail"
               /\ remoteLog = <<>>
        /\ cli.kind \notin {"page", "database"} =>
               /\ cliPc = <<"exit">>
               /\ report.spinner = "fail"
               /\ remoteLog = <<>>
               /\ ensureClient(cli) => report.text = <<"Unknown template kind">>

C23_Witness ==
    /\ TemplateRead
    /\ ensureClient(cli)
    /\ cli.kind = "database"
    /\ cli.parentType = "database"
    /\ report # <<>>
    /\ report.text = <<"Database templates must be created under a page">>

IndexOf(op, by) ==
    {i \in DOMAIN remoteLog : remoteLog[i].op = op /\ remoteLog[i].by = by}

\* exportMaster has returned a database
MasterIsDatabase ==
    /\ cli.cmd = "from-master"
    /\ \E i \in IndexOf("databases.retrieve", "exportMaster") : remoteLog[i].answer = "ok"

\* C24: when the master is a database, cloneFromMaster issues databases.create
\* only after pages.retrieve of the target has succeeded; when that retrieval
\* fails the command fails with the 'targetId must be a page_id' error and
\* no databases.create has been issued.
C24_DatabaseTarget ==
    MasterIsDatabase =>
        /\ \A i \in IndexOf("databases.create", "cloneFromMaster") :
               \E j \in IndexOf("pages.retrieve", "cloneFromMaster") :
                   j < i /\ remoteLog[j].answer = "ok"
        /\ \A j \in IndexOf("pages.retrieve", "cloneFromMaster") :
               remoteLog[j].answer = "error" =>
                   /\ cliPc = <<"exit">>
                   /\ report.spinner = "fail"
                   /\ report.text = <<"When cloning a database, targetId must be a page_id">>
                   /\ IndexOf("databases.create", "cloneFromMaster") = {}
        /\ IndexOf("pages.create", "cloneFromMaster") = {}

C24_Witness ==
    /\ MasterIsDatabase
    /\ report # <<>>
    /\ report.text = <<"When cloning a database, targetId must be a page_id">>

IdArguments == {"masterId", "targetId"}

ShortId == \E f \in DOMAIN cli \cap IdArguments : cli[f] < MinIdLength

\* the last remote call failed for good
LastCallFailed == remoteLog # <<>> /\ remoteLog[Len(remoteLog)].answer = "error"

\* C25: whatever the command, when its operation fails the handler reports
\* the message of the error that reached it and sets a non-zero exit code,
\* and a command with an id argument of fewer than 32 characters fails in
\* assertIdLike with no remote call issued.
C25_FailureReported ==
    /\ ShortId => remoteLog = <<>>
    /\ cliPc = <<"exit">> =>
        /\ ShortId => (report.spinner = "fail" /\ report.text[1] = "looks invalid")
        /\ report.spinner = "fail" <=> report.exitCode # 0
        /\ LastCallFailed =>
               /\ report.spinner = "fail"
               /\ report.exitCode # 0
               /\ report.text \in
                      {RemoteError(remoteLog[Len(remoteLog)].op),
                       <<"ID is neither a Page nor a Database">>,
                       <<"When cloning a database, targetId must be a page_id">>}
        /\ report.spinner # "fail" =>
               \A i \in DOMAIN remoteLog :
                   remoteLog[i].answer = "error" => remoteLog[i].by \in {"exportMaster", "getAllBlocks"}

C25_Witness ==
    /\ cli.cmd = "deploy"
    /\ LastCallFailed
    /\ Len(remoteLog) > 3
    /\ report # <<>>
    /\ report.exitCode = 1
    /\ report.text = RemoteError("pages.create")

PhaseOf(i) == remoteLog[i].arg.phase

Rank(phase) ==
    CASE phase = "create" -> 1
      [] phase = "patch" -> 2
      [] phase = "pages" -> 3
      [] phase = "seeds" -> 4
      [] phase = "links" -> 5
      [] phase = "info" -> 6

\* C26: deployBlueprint issues its remote calls in a fixed order: every
\* database is created, without relation properties, before a relation
\* property is patched in, all database calls before the pages, the pages
\* before the seed rows, the seed rows before the action links, and the
\* install-info page last; action links are attached only when a database
\* with alias tasks exists and a base URL and an appSecret are given.
C26_DeployOrder ==
    cli.cmd = "deploy" =>
        /\ \A i, j \in DOMAIN remoteLog : i < j => Rank(PhaseOf(i)) <= Rank(PhaseOf(j))
        /\ \A i \in DOMAIN remoteLog :
             /\ remoteLog[i].op = "databases.create" =>
                    /\ PhaseOf(i) = "create"
                    /\ \A p \in remoteLog[i].arg.props : p.type # "relation"
             /\ remoteLog[i].op = "databases.update" => PhaseOf(i) = "patch"
             /\ remoteLog[i].by = "createSeeds" => PhaseOf(i) = "seeds"
             /\ remoteLog[i].by \in {"setTaskUrlProperties", "injectActionLinksOnTask"} =>
                    /\ PhaseOf(i) = "links"
                    /\ "tasks" \in Aliases(cli)
                    /\ cli.optBaseUrl \/ cli.docBaseUrl
                    /\ cli.appSecret
        /\ (cliPc = <<"exit">> /\ report.spinner = "succeed") =>
             /\ Len(remoteLog) >= 2
             /\ PhaseOf(Len(remoteLog)) = "info"
             /\ PhaseOf(Len(remoteLog) - 1) = "info"
             /\ Cardinality({i \in DOMAIN remoteLog :
                                 remoteLog[i].op = "databases.create"}) = Len(cli.databases)

C26_Witness ==
    /\ cli.cmd = "deploy"
    /\ cliPc = <<"exit">>
    /\ report.spinner = "succeed"
    /\ Len(cli.databases) = 3
    /\ Len(cli.pages) = 2
    /\ \E i \in DOMAIN remoteLog : remoteLog[i].by = "injectActionLinksOnTask"
    /\ \E i \in DOMAIN remoteLog : remoteLog[i].by = "createSeeds"
    /\ \E i \in DOMAIN remoteLog : remoteLog[i].op = "databases.update"

Errored(cur) ==
    {i \in DOMAIN remoteLog :
        remoteLog[i].arg.start_cursor = cur /\ remoteLog[i].answer = "error"}

PageOf(i) ==
    listPage(cli.total, remoteLog[i].arg.start_cursor, remoteLog[i].arg.page_size)

\* C27: getAllBlocks requests the next page while the page received says
\* has_more, with the cursor that page returned, and returns the results of
\* the pages concatenated in order; it rejects when the request of a page
\* fails for good; and the request of every page is retried on its own, the
\* attempts counted from zero for each page.
C27_AllPages ==
    cli.cmd = "getAllBlocks" =>
        /\ \A i \in DOMAIN remoteLog :
             /\ i = 1 => remoteLog[i].arg.start_cursor = 0
             /\ (i > 1 /\ remoteLog[i - 1].answer = "ok") =>
                    /\ PageOf(i - 1).has_more
                    /\ remoteLog[i].arg.start_cursor = PageOf(i - 1).next_cursor
             /\ (i > 1 /\ remoteLog[i - 1].answer = "error") =>
                    remoteLog[i].arg.start_cursor = remoteLog[i - 1].arg.start_cursor
             /\ (i < Len(remoteLog) \/ cliPc = <<"exit">>) => remoteLog[i].answer # "none"
        /\ cliPc \notin {<<"start">>, <<"exit">>} =>
             /\ attempt = Cardinality(Errored(locals.cursor))
             /\ attempt < MaxAttempts
        /\ (cliPc = <<"exit">> /\ report.kind = "returned") =>
             /\ report.val = [k \in 1..cli.total |-> k]
             /\ remoteLog[Len(remoteLog)].answer = "ok"
             /\ ~PageOf(Len(remoteLog)).has_more
        /\ (cliPc = <<"exit">> /\ report.kind = "threw") =>
             /\ remoteLog[Len(remoteLog)].answer = "error"
             /\ report.val = lastErr
             /\ \/ Cardinality(Errored(locals.cursor)) = MaxAttempts
                \/ FatalError(lastErr)

C27_Witness ==
    /\ cli.cmd = "getAllBlocks"
    /\ cli.total = 2 * PageSize + 1
    /\ cliPc = <<"exit">>
    /\ report.kind = "returned"
    /\ Cardinality({i \in DOMAIN remoteLog : remoteLog[i].answer = "error"}) > 2 * MaxAttempts

SourceObjects == DOMAIN cli.heap

\* what the sanitized block at position i is made of, given the heap h
Sanitized(h, out, i) ==
    LET src == cli.blocks[i]
        type == get(cli.heap, src, "type")
        key == keyOf(type)
        payload == get(cli.heap, src, key)
    IN  /\ out.t = "ref"
        /\ ~h[out.n].array
        /\ DOMAIN h[out.n].slots =
               {"type"} \cup (IF Truthy(payload) THEN {key} ELSE {})
                        \cup (IF get(cli.heap, src, "has_children") = Bool(TRUE)
                              THEN {"has_children"} ELSE {})
        /\ get(h, out, "type") = type
        /\ Truthy(payload) => Struct(h, get(h, out, key)) = Struct(cli.heap, payload)
        /\ "has_children" \in DOMAIN h[out.n].slots => get(h, out, "has_children") = Bool(TRUE)
        /\ Reach(h, out) \cap SourceObjects = {}

Submitted(n) == {k \in DOMAIN submitOrder : submitOrder[k] = n}

\* C29: at every level the created block at position i is paired with the
\* source child at position i, across the batches of the level: the task
\* submitted for it is the only one for that child, and the recursive call
\* it makes, which it makes exactly when the source child has children, has
\* that child as its source and the created block as its target.
C29_Pairing ==
    \A p \in Nodes : cpc[p] \in {"awaiting", "done"} =>
        /\ Len(created[p]) = Len(kids[p])
        /\ \A i \in 1..Len(kids[p]) :
             LET n == kids[p][i] IN
             /\ created[p][i] = Append(target[p], i)
             /\ dest[created[p][i]] = sanitizeOne(Block(n))
             /\ target[n] = created[p][i]
             /\ Cardinality(Submitted(n)) = 1
             /\ cpc[n] # "none" => (kids[n] # <<>> /\ tstate[n] \in {"running", "settled"})
             /\ (kids[n] # <<>> /\ tstate[n] \in {"running", "settled"}) => cpc[n] # "none"
             /\ cpc[n] \in {"appending", "awaiting", "done"} =>
                    \A j \in 1..Len(created[n]) :
                        /\ SubSeq(created[n][j], 1, Len(created[n][j]) - 1) = created[p][i]
                        /\ dest[created[n][j]] = sanitizeOne(Block(kids[n][j]))

C29_Witness ==
    /\ Len(kids[0]) = LevelWidth
    /\ cpc[0] = "awaiting"
    /\ kids[BatchSize + 1] # <<>>
    /\ cpc[BatchSize + 1] = "done"
    /\ target[BatchSize + 1] = <<BatchSize + 1>>
    /\ created[BatchSize + 1] = <<<<BatchSize + 1, 1>>>>

Executing == {t \in DOMAIN tstate : tstate[t] = "running"}

\* the calls of cloneBlocksRecursive that wait for the answer to a remote call
CallsInFlight == {p \in Nodes : cpc[p] \in {"listing", "appending"}}

\* C30: at no time are more than 3 replication tasks executing, whatever
\* their levels, and at no time do more than 3 remote calls of the
\* replication wait for their answer.
C30_AtMostThree ==
    /\ concurrency = 3
    /\ Cardinality(Executing) <= concurrency
    /\ Cardinality(CallsInFlight) <= concurrency
    /\ \A p \in CallsInFlight : p = 0 \/ p \in Executing
    /\ 0 \in CallsInFlight => Executing = {}

C30_Witness ==
    /\ Cardinality(CallsInFlight) = 3
    /\ Cardinality(Executing) = 3
    /\ \E p \in CallsInFlight : cpc[p] = "appending"
    /\ \E p \in CallsInFlight : cpc[p] = "listing"

BackoffStates == {"list-wait", "append-wait"}

Sleeping == {p \in Nodes : cpc[p] \in BackoffStates}

\* C31: a task whose remote call is in a backoff wait keeps its slot: a task
\* is counted in the active count from its start to its settlement, the
\* count never exceeds the ceiling, and neither the beginning nor the end
\* of a backoff wait changes the active count, the queue or the state of a
\* task.
C31_SlotKept ==
    /\ [](/\ \A t \in Sleeping : t = 0 \/ tstate[t] = "running"
          /\ active = Cardinality({t \in DOMAIN tstate : tstate[t] = "running"})
          /\ active <= concurrency)
    /\ [][/\ \A t \in DOMAIN tstate :
                (tstate[t] = "running" /\ tstate'[t] # "running") => tstate'[t] = "settled"
          /\ (\E p \in Nodes : (cpc[p] \in BackoffStates) # (cpc'[p] \in BackoffStates)) =>
                UNCHANGED <<active, queue, tstate, startOrder>>]_vars

C31_Witness ==
    /\ \E t \in Sleeping : t # 0 /\ tstate[t] = "running"
    /\ active = concurrency
    /\ queue # <<>>
    /\ naps = MaxNaps

\* the calls whose own append has failed for good
AppendFailed == {failLog[i].call : i \in {i \in DOMAIN failLog : failLog[i].op = "append"}}

\* C32: when the append of batch k of a level fails for good, the blocks of
\* the batches before k stay at the destination (nothing is ever removed
\* from it), no batch after k is sent, and no task is submitted for the
\* level, the blocks created by the earlier batches included.
C32_NoRollback ==
    /\ [](\A p \in AppendFailed :
            LET k == Len(sent[p]) IN
            /\ cpc[p] = "failed"
            /\ chunkAt[p] = (k - 1) * BatchSize
            /\ Len(created[p]) = (k - 1) * BatchSize
            /\ \A i \in 1..Len(created[p]) :
                 /\ created[p][i] \in DOMAIN dest
                 /\ dest[created[p][i]] = sanitizeOne(blocks[p][i])
            /\ \A n \in Range(kids[p]) : tstate[n] = "new" /\ n \notin Range(submitOrder))
    /\ [][/\ \A q \in DOMAIN dest : q \in DOMAIN dest' /\ dest'[q] = dest[q]
          /\ \A p \in AppendFailed : sent'[p] = sent[p] /\ created'[p] = created[p]]_vars

C32_Witness ==
    /\ 0 \in AppendFailed
    /\ Len(sent[0]) = 2
    /\ Len(created[0]) = BatchSize
    /\ kids[1] # <<>>
    /\ kids[BatchSize + 1] # <<>>
    /\ Cardinality(DOMAIN dest) = BatchSize

RootRejected == cpc[0] = "failed"

ParentOf(n) == CHOOSE q \in Nodes : n \in Range(kids[q])

\* C34: an append is sent to the parent the caller gave or to a block that
\* an append of the parent level, answered before, has returned; and a task
\* of a level is submitted only when every batch of the level is answered.
C34_Targets ==
    /\ [](\A p \in Nodes :
            /\ (p # 0 /\ sent[p] # <<>>) =>
                  /\ target[p] \in Range(created[ParentOf(p)])
                  /\ cpc[ParentOf(p)] \notin {"none", "listing", "appending"}
            /\ (p = 0 /\ sent[p] # <<>>) => target[p] = DestParent
            /\ \A n \in Range(kids[p]) :
                  n \in Range(submitOrder) =>
                     /\ cpc[p] \notin {"none", "listing", "appending"}
                     /\ Len(created[p]) = Len(kids[p])
                     /\ Range(created[p]) \subseteq DOMAIN dest)
    /\ [][\A p \in Nodes :
             sent'[p] # sent[p] =>
                 /\ target'[p] = target[p]
                 /\ IF p = 0 THEN target[p] = DestParent ELSE target[p] \in DOMAIN dest]_vars

C34_Witness ==
    /\ Len(sent[0]) = 2
    /\ \E p \in Nodes : p # 0 /\ sent[p] # <<>> /\ target[p][1] > BatchSize
    /\ \E p \in Nodes : p # 0 /\ sent[p] # <<>> /\ target[p][1] <= BatchSize

PastGate(r) == \E i \in DOMAIN notionLog : notionLog[i].req = r

\* C35: a request that has passed the gate carries in its path the action
\* that its signature covers.  The code does not keep this: the action
\* performed is read from the path and the one verified from the query.
C35_PathIsSigned ==
    \A r \in DOMAIN reqs :
        PastGate(r) => reqs[r].path = Get(reqs[r].query, "action")

TotalOf(pg) == pg["Total Tracked (min)"].number

\* The update of request r is applied to the page in this step.
Applied(r) ==
    /\ reqs[r].pc = "updating"
    /\ reqs'[r].pc # "updating"
    /\ ~(reqs'[r].pc = "answered" /\ reqs'[r].status = 500)

\* C36: over a sequence of accepted requests on one task the total never
\* decreases; it changes only when the update of a pause or a stop that
\* found Last Started At set is applied; and a start leaves the total as it
\* is and sets Last Started At to its own instant, whatever it found there.
C36_TotalMonotone ==
    [][/\ TotalOf(page') >= TotalOf(page)
       /\ TotalOf(page') # TotalOf(page) =>
             \E r \in DOMAIN reqs :
                 /\ Applied(r)
                 /\ reqs[r].path \in {PauseS, StopS}
                 /\ reqs[r].task["Last Started At"].date # <<>>
       /\ \A r \in DOMAIN reqs :
             (Applied(r) /\ reqs[r].path = StartS) =>
                 /\ TotalOf(page') = TotalOf(page)
                 /\ page'["Last Started At"].date = <<reqs[r].nowIso>>]_vars

\* A start, a later start, then a pause that added to the total.
C36_Witness ==
    /\ reqs[1].path = StartS /\ reqs[1].status = 200
    /\ reqs[2].path = StartS /\ reqs[2].status = 200
    /\ reqs[2].nowIso > reqs[1].nowIso
    /\ reqs[3].path = PauseS /\ reqs[3].status = 200
    /\ reqs[3].task["Last Started At"].date = <<reqs[2].nowIso>>
    /\ TotalOf(page) = MinutesBetween(reqs[2].nowIso, reqs[3].nowIso)
    /\ TotalOf(page) >= 1

\* The requests whose update has been applied to the page.
Stored(r) == reqs[r].pc \in {"dbRetrieving", "creating"} \/ (reqs[r].pc = "answered" /\ reqs[r].status = 200)

\* C37: however the handlers of concurrent pause and stop requests on a
\* running task interleave, the total is never more than the total before
\* plus the minutes since Last Started At, and once an update is stored the
\* total is the total before plus the interval one of the requests saw.
C37_AddedOnce ==
    /\ TotalOf(page) <= MinutesBetween(Minute, now)
    /\ (\E r \in DOMAIN reqs : Stored(r)) =>
          /\ page["Last Started At"].date = <<>>
          /\ \E r \in DOMAIN reqs :
                /\ Stored(r)
                /\ TotalOf(page) = MinutesBetween(Minute, reqs[r].nowIso)

\* Both requests read the running task before either update, and both
\* updates are stored.
C37_Witness ==
    /\ \A r \in DOMAIN reqs :
          /\ reqs[r].pc = "answered" /\ reqs[r].status = 200
          /\ reqs[r].task["Last Started At"].date = <<Minute>>
          /\ reqs[r].newTotal = 1
    /\ reqs[1].path = PauseS
    /\ reqs[2].path = StopS
    /\ TotalOf(page) = 1

NeitherText == <<"ID is neither a Page nor a Database">>

PagePathFailed(i) ==
    /\ remoteLog[i].answer = "error"
    /\ \/ remoteLog[i].op = "pages.retrieve" /\ remoteLog[i].by = "exportMaster"
       \/ remoteLog[i].op = "blocks.children.list" /\ remoteLog[i].by = "getAllBlocks"

\* C38: exportMaster retrieves the id as a page first and as a database only
\* right after a call of the page path has failed; it fails with 'ID is
\* neither a Page nor a Database' exactly when the database retrieval fails
\* too; a failed listing of the page is followed by the database retrieval,
\* and its error is never the one reported.
C38_PageThenDatabase ==
    /\ \A i \in IndexOf("databases.retrieve", "exportMaster") :
          /\ i > 1
          /\ PagePathFailed(i - 1)
          /\ remoteLog[1].op = "pages.retrieve" /\ remoteLog[1].by = "exportMaster"
          /\ \A j \in 1..(i - 2) : remoteLog[j].answer = "ok"
    /\ (report # <<>> /\ report.text = NeitherText) <=>
          \E i \in IndexOf("databases.retrieve", "exportMaster") :
              remoteLog[i].answer = "error"
    /\ \A j \in IndexOf("blocks.children.list", "getAllBlocks") :
          remoteLog[j].answer = "error" =>
              /\ j + 1 \in IndexOf("databases.retrieve", "exportMaster")
              /\ report # <<>> => report.text # RemoteError("blocks.children.list")

\* The page was retrieved, its listing failed, and so did the retrieval as a
\* database.
C38_Witness ==
    /\ remoteLog # <<>>
    /\ remoteLog[1].op = "pages.retrieve" /\ remoteLog[1].answer = "ok"
    /\ \E j \in IndexOf("blocks.children.list", "getAllBlocks") : remoteLog[j].answer = "error"
    /\ report # <<>>
    /\ report.text = NeitherText

=========================================================================
